---- MODULE Spec2Model ----
(***************************************************************************)
(* The JSON request store of db.py: the backing file, the temporary file   *)
(* of the write-then-rename protocol, the process-wide lock and the public *)
(* operations init_db, add_request, list_all_requests, list_open_requests, *)
(* update_status, update_result and delete_request.                        *)
(*                                                                         *)
(* Spec     : one caller; every public operation is one atomic step, which *)
(*            the lock justifies (C3, C4); call and ret record the call    *)
(*            that ran last and the value it returned.                     *)
(* SpecConc : several callers; an operation is split at every access to    *)
(*            shared state (lock, file read, temporary-file write, rename) *)
(*            and the process may crash between any two steps.             *)
(***************************************************************************)
EXTENDS Integers, Sequences, FiniteSets, TLC

\* ---------------------------------------------------------------- bounds
MaxRecords == 3     \* add_request is not issued on a store of MaxRecords records
MaxCalls == 4       \* calls issued in one behaviour
MaxRuns == 6        \* handler runs of the chat adapters in one behaviour
MaxMessages == 3    \* overview messages posted in one behaviour
MaxLiveCalls == 3   \* calls issued where progress is checked
FewRuns == 4        \* of them, where the loop is modelled step by step or the
                    \* store starts with requests

\* ------------------------------------------------------------- constants
VERSION == 2

RESULT_CODES == {"", "dispo", "non_dispo"}

OPEN_STATUSES == {"file_attente", "en_cours"}

DEFAULT_STATUS == "file_attente"

\* ---------------------------------------------------------------- inputs
\* What callers submit, (user_id, platform, title, year, category), and the
\* reading of the UTC clock (_utc_now_iso) when add_request runs for it.
Submissions ==
  { [payload |-> [user_id |-> "42", platform |-> "discord", title |-> "Dune",
                  year |-> 2021, category |-> "film"],
     now |-> "2026-01-01 10:00:00"],
    [payload |-> [user_id |-> "77", platform |-> "telegram", title |-> " dune",
                  year |-> 0, category |-> "serie"],
     now |-> "2026-01-02 09:30:00"] }

\* Status strings passed to update_status, and to add_request besides its
\* default: a current status and the two legacy ones from_dict rewrites.
StatusInputs == {"en_cours", "traitee", "ajout_dispo"}

AddStatusInputs == {DEFAULT_STATUS, "ajout_dispo"}

\* Result codes passed to update_result; "peut-etre" is outside the enum.
ResultInputs == RESULT_CODES \cup {"peut-etre"}

\* Request ids passed by callers: the ids a store can hold, and 99, which no
\* store of the model holds.
IdInputs == (1..MaxRecords) \cup {99}

Procs == {"p1", "p2"}

NoPayload == [user_id |-> "", platform |-> "", title |-> "", year |-> 0, category |-> ""]

\* A call of a public operation with its arguments (unused arguments blank).
MkCall(o, pl, st, now, id, code) ==
  [op |-> o, payload |-> pl, status |-> st, now |-> now, request_id |-> id, result_code |-> code]

NoCall == MkCall("none", NoPayload, "", "", 0, "")

InitCalls == {MkCall("init_db", NoPayload, "", "", 0, "")}

ListAllCalls == {MkCall("list_all_requests", NoPayload, "", "", 0, "")}

ListOpenCalls == {MkCall("list_open_requests", NoPayload, "", "", 0, "")}

AddCalls ==
  {MkCall("add_request", sub.payload, st, sub.now, 0, "") :
     sub \in Submissions, st \in AddStatusInputs}

StatusCalls ==
  {MkCall("update_status", NoPayload, st, "", id, "") : st \in StatusInputs, id \in IdInputs}

ResultCalls ==
  {MkCall("update_result", NoPayload, "", "", id, c) : id \in IdInputs, c \in ResultInputs}

DeleteCalls == {MkCall("delete_request", NoPayload, "", "", id, "") : id \in IdInputs}

Calls ==
  InitCalls \cup ListAllCalls \cup ListOpenCalls \cup AddCalls \cup StatusCalls
    \cup ResultCalls \cup DeleteCalls

\* The calls of SpecConc: every operation, on fewer arguments.
ConcCalls ==
  InitCalls \cup ListAllCalls \cup ListOpenCalls
    \cup {c \in AddCalls : c.status = DEFAULT_STATUS /\ c.payload.platform = "discord"}
    \cup {c \in StatusCalls : c.status = "en_cours" /\ c.request_id = 1}
    \cup {c \in ResultCalls : c.result_code \in {"dispo", "peut-etre"} /\ c.request_id = 2}
    \cup {c \in DeleteCalls : c.request_id = 1}

\* Return values: None, a boolean, an id, or a list of row tuples.
RetNone == [kind |-> "none", b |-> FALSE, n |-> 0, rows |-> <<>>]
RetBool(v) == [kind |-> "bool", b |-> v, n |-> 0, rows |-> <<>>]
RetInt(v) == [kind |-> "int", b |-> FALSE, n |-> v, rows |-> <<>>]
RetRows(v) == [kind |-> "rows", b |-> FALSE, n |-> 0, rows |-> v]
\* The call ended with an exception instead of a value.
RetRaise == [kind |-> "raise", b |-> FALSE, n |-> 0, rows |-> <<>>]

\* ------------------------------------------------------------ file values
\* A file is absent, a parsed JSON document {meta: {version}, requests: [...]},
\* a partially written text, or a text that is not such a document.
\* Of a document: meta says whether its "meta" member is an object, is missing
\* or is something else; version is meta["version"] (0: no such key); keys
\* are the other members of meta and top the members of the document other
\* than "meta" and "requests", as <<name, value>> pairs.
DocWith(m, v, ks, tp, reqs) ==
  [kind |-> "doc", meta |-> m, version |-> v, keys |-> ks, top |-> tp, requests |-> reqs]
Doc(v, reqs) == DocWith("object", v, {}, {}, reqs)
Absent == [Doc(0, <<>>) EXCEPT !.kind = "absent"]
Partial == [Doc(0, <<>>) EXCEPT !.kind = "partial"]
Corrupt == [Doc(0, <<>>) EXCEPT !.kind = "corrupt"]

empty_db == Doc(VERSION, <<>>)

\* ------------------------------------------------------------ RequestItem
to_dict(it) ==
  [id |-> it.id, user_id |-> it.user_id, platform |-> it.platform, title |-> it.title,
   year |-> it.year, category |-> it.category, status |-> it.status,
   created_at |-> it.created_at, result |-> it.result]

\* d.get(k, dflt): a stored object may lack keys and may carry others.
Get(d, k, dflt) == IF k \in DOMAIN d THEN d[k] ELSE dflt

\* Mutant of from_dict: the stored result is taken as it is.
from_dict_any_result(d) ==
  LET result0 == Get(d, "result", "")
      status0 == Get(d, "status", DEFAULT_STATUS)
      result == IF status0 = "ajout_dispo" /\ result0 = "" THEN "dispo" ELSE result0
      status == IF status0 \in {"ajout_dispo", "traitee"} THEN "en_cours" ELSE status0
  IN [id |-> Get(d, "id", 0), user_id |-> Get(d, "user_id", ""),
      platform |-> Get(d, "platform", "discord"), title |-> Get(d, "title", ""),
      year |-> Get(d, "year", 0), category |-> Get(d, "category", ""), status |-> status,
      created_at |-> Get(d, "created_at", ""), result |-> result]

\* Mutant of from_dict: no status is migrated.
from_dict_keeps_status(d) ==
  LET stored == Get(d, "result", "")
      result0 == IF stored \in RESULT_CODES THEN stored ELSE ""
      status0 == Get(d, "status", DEFAULT_STATUS)
      result == IF status0 = "ajout_dispo" /\ result0 = "" THEN "dispo" ELSE result0
  IN [id |-> Get(d, "id", 0), user_id |-> Get(d, "user_id", ""),
      platform |-> Get(d, "platform", "discord"), title |-> Get(d, "title", ""),
      year |-> Get(d, "year", 0), category |-> Get(d, "category", ""), status |-> status0,
      created_at |-> Get(d, "created_at", ""), result |-> result]

\* Mutant of from_dict: the elif branch for traitee is missing.
from_dict_keeps_traitee(d) ==
  LET stored == Get(d, "result", "")
      result0 == IF stored \in RESULT_CODES THEN stored ELSE ""
      status0 == Get(d, "status", DEFAULT_STATUS)
      result == IF status0 = "ajout_dispo" /\ result0 = "" THEN "dispo" ELSE result0
      status == IF status0 = "ajout_dispo" THEN "en_cours" ELSE status0
  IN [id |-> Get(d, "id", 0), user_id |-> Get(d, "user_id", ""),
      platform |-> Get(d, "platform", "discord"), title |-> Get(d, "title", ""),
      year |-> Get(d, "year", 0), category |-> Get(d, "category", ""), status |-> status,
      created_at |-> Get(d, "created_at", ""), result |-> result]

from_dict(d) ==
  LET stored == Get(d, "result", "")
      result0 == IF stored \in RESULT_CODES THEN stored ELSE ""
      status0 == Get(d, "status", DEFAULT_STATUS)
      result == IF status0 = "ajout_dispo" /\ result0 = "" THEN "dispo" ELSE result0
      status == IF status0 \in {"ajout_dispo", "traitee"} THEN "en_cours" ELSE status0
  IN [id |-> Get(d, "id", 0), user_id |-> Get(d, "user_id", ""),
      platform |-> Get(d, "platform", "discord"), title |-> Get(d, "title", ""),
      year |-> Get(d, "year", 0), category |-> Get(d, "category", ""), status |-> status,
      created_at |-> Get(d, "created_at", ""), result |-> result]

\* The row tuple the list functions return for an item.
Row(it) ==
  <<it.id, it.user_id, it.platform, it.title, it.year, it.category, it.status,
    it.created_at, it.result>>

\* ------------------------------------------------------------------- I/O
\* What _read_db_unlocked returns for a file that exists (an unreadable text
\* falls back to the empty document), and for an absent one after creating it.
read_db_data(f) ==
  IF f.kind # "doc" THEN empty_db
  ELSE IF f.meta # "object" THEN [f EXCEPT !.meta = "object", !.version = VERSION, !.keys = {}]
  ELSE f

\* Mutant of read_db_file: a text that cannot be parsed is replaced at once.
read_db_file_resets(f) == IF f.kind # "doc" THEN empty_db ELSE f

\* Mutant of read_db_file: the empty document is written on every call.
read_db_file_recreates(f) == empty_db

\* The file as _read_db_unlocked leaves it: an absent file is created empty.
read_db_file(f) == IF f.kind = "absent" THEN empty_db ELSE f

\* Mutant of InsertById: a sort that is not stable (x goes before its equals).
RECURSIVE InsertByIdUnstable(_, _)
InsertByIdUnstable(s, x) ==
  IF s = <<>> THEN <<x>>
  ELSE IF s[Len(s)].id < x.id THEN Append(s, x)
  ELSE Append(InsertByIdUnstable(SubSeq(s, 1, Len(s) - 1), x), s[Len(s)])

\* list.sort(key=id): stable insertion of x into a sorted list.
RECURSIVE InsertById(_, _)
InsertById(s, x) ==
  IF s = <<>> THEN <<x>>
  ELSE IF s[Len(s)].id <= x.id THEN Append(s, x)
  ELSE Append(InsertById(SubSeq(s, 1, Len(s) - 1), x), s[Len(s)])

RECURSIVE SortById(_)
SortById(s) ==
  IF s = <<>> THEN <<>>
  ELSE InsertById(SortById(SubSeq(s, 1, Len(s) - 1)), s[Len(s)])

\* Mutant of Renumber: enumerate without start=1.
RenumberFromZero(items) == [i \in 1..Len(items) |-> [items[i] EXCEPT !.id = i - 1]]

\* for idx, it in enumerate(items, start=1): it.id = idx
Renumber(items) == [i \in 1..Len(items) |-> [items[i] EXCEPT !.id = i]]

\* An entry of "requests" that is not a JSON object is written [nondict |-> TRUE].
IsDict(r) == "nondict" \notin DOMAIN r

load_requests(data) ==
  LET dicts == SelectSeq(data.requests, IsDict)
  IN Renumber(SortById([i \in 1..Len(dicts) |-> from_dict(dicts[i])]))

\* Mutant of save_requests: meta["version"] is not assigned.
save_requests_keeps_version(data, items) ==
  [data EXCEPT !.requests = [i \in 1..Len(items) |-> to_dict(items[i])]]

\* Mutant of save_requests: a fresh container is written.
save_requests_fresh(data, items) ==
  Doc(VERSION, [i \in 1..Len(items) |-> to_dict(items[i])])

\* The document _save_requests_unlocked writes, from the data it re-read.
save_requests(data, items) ==
  [data EXCEPT !.requests = [i \in 1..Len(items) |-> to_dict(items[i])],
               !.version = VERSION]

\* What list_all_requests would return on file f.
View(f) == LET its == load_requests(read_db_data(f)) IN [i \in 1..Len(its) |-> Row(its[i])]

\* ------------------------------------------------- bodies under the lock
\* Each takes the items just loaded and yields the new items, whether they
\* are saved, and the value returned.
Body(its, save, r) == [items |-> its, save |-> save, ret |-> r]

\* Mutant of add_request_body: new_id is len(items).
add_request_from_zero(items, c) ==
  LET new_id == Len(items)
      it == [id |-> new_id, user_id |-> c.payload.user_id, platform |-> c.payload.platform,
             title |-> c.payload.title, year |-> c.payload.year,
             category |-> c.payload.category, status |-> c.status,
             created_at |-> c.now, result |-> ""]
  IN Body(Append(items, it), TRUE, RetInt(new_id))

add_request_body(items, c) ==
  LET new_id == Len(items) + 1
      it == [id |-> new_id, user_id |-> c.payload.user_id, platform |-> c.payload.platform,
             title |-> c.payload.title, year |-> c.payload.year,
             category |-> c.payload.category, status |-> c.status,
             created_at |-> c.now, result |-> ""]
  IN Body(Append(items, it), TRUE, RetInt(new_id))

list_all_requests_body(items) ==
  Body(items, FALSE, RetRows([i \in 1..Len(items) |-> Row(items[i])]))

\* Mutant of list_open_requests_body: the result is not tested.
list_open_ignores_result(items) ==
  LET open == SelectSeq(items, LAMBDA it : it.status \in OPEN_STATUSES)
  IN Body(items, FALSE, RetRows([i \in 1..Len(open) |-> Row(open[i])]))

list_open_requests_body(items) ==
  LET open == SelectSeq(items, LAMBDA it : it.status \in OPEN_STATUSES /\ it.result = "")
  IN Body(items, FALSE, RetRows([i \in 1..Len(open) |-> Row(open[i])]))

\* First index whose item has the id, 0 when none (the for ... break loop).
RECURSIVE FindFrom(_, _, _)
FindFrom(items, id, i) ==
  IF i > Len(items) THEN 0
  ELSE IF items[i].id = id THEN i
  ELSE FindFrom(items, id, i + 1)

\* Mutant of update_status_body: the item is stamped again when it changes.
update_status_restamps(items, c) ==
  LET i == FindFrom(items, c.request_id, 1)
  IN IF i = 0 THEN Body(items, FALSE, RetBool(FALSE))
     ELSE Body([items EXCEPT ![i].status = c.status, ![i].created_at = "2026-01-03 00:00:00"],
               TRUE, RetBool(TRUE))

update_status_body(items, c) ==
  LET i == FindFrom(items, c.request_id, 1)
  IN IF i = 0 THEN Body(items, FALSE, RetBool(FALSE))
     ELSE Body([items EXCEPT ![i].status = c.status], TRUE, RetBool(TRUE))

\* Mutant of result_code_ok: no check of the code.
result_code_any(code) == TRUE

\* The check update_result makes before taking the lock.
result_code_ok(code) == code \in RESULT_CODES

\* Mutant of update_result_body: an id that is not found is given a record.
update_result_upsert(items, c) ==
  LET i == FindFrom(items, c.request_id, 1)
      it == [id |-> Len(items) + 1, user_id |-> "", platform |-> "discord", title |-> "",
             year |-> 0, category |-> "", status |-> DEFAULT_STATUS, created_at |-> "",
             result |-> c.result_code]
  IN IF i = 0 THEN Body(Append(items, it), TRUE, RetBool(TRUE))
     ELSE Body([items EXCEPT ![i].result = c.result_code], TRUE, RetBool(TRUE))

\* Mutant of update_result_body: the assignment is outside the id test, so
\* every item up to the one found gets the result.
update_result_upto(items, c) ==
  LET i == FindFrom(items, c.request_id, 1)
  IN IF i = 0 THEN Body(items, FALSE, RetBool(FALSE))
     ELSE Body([j \in 1..Len(items) |->
                  IF j <= i THEN [items[j] EXCEPT !.result = c.result_code] ELSE items[j]],
               TRUE, RetBool(TRUE))

update_result_body(items, c) ==
  LET i == FindFrom(items, c.request_id, 1)
  IN IF i = 0 THEN Body(items, FALSE, RetBool(FALSE))
     ELSE Body([items EXCEPT ![i].result = c.result_code], TRUE, RetBool(TRUE))

\* Mutant of delete_request_body: the id is used as a 0-based list index.
delete_request_by_index(items, c) ==
  LET kept == SelectSeq(items, LAMBDA it : it.id # c.request_id + 1)
  IN IF Len(kept) = Len(items) THEN Body(items, FALSE, RetBool(FALSE))
     ELSE Body(Renumber(kept), TRUE, RetBool(TRUE))

delete_request_body(items, c) ==
  LET kept == SelectSeq(items, LAMBDA it : it.id # c.request_id)
  IN IF Len(kept) = Len(items) THEN Body(items, FALSE, RetBool(FALSE))
     ELSE Body(Renumber(kept), TRUE, RetBool(TRUE))

OpBody(items, c) ==
  CASE c.op = "add_request" -> add_request_body(items, c)
    [] c.op = "list_all_requests" -> list_all_requests_body(items)
    [] c.op = "list_open_requests" -> list_open_requests_body(items)
    [] c.op = "update_status" -> update_status_body(items, c)
    [] c.op = "update_result" -> update_result_body(items, c)
    [] c.op = "delete_request" -> delete_request_body(items, c)
    [] OTHER -> Body(items, FALSE, RetNone)

\* ----------------------------------------------------------------- state
VARIABLES
  file,     \* content of the backing file _DB_PATH
  tmp,      \* content of the temporary file _DB_PATH + ".tmp"
  lock,     \* holder of _LOCK, or "free"
  pc,       \* per caller: where it is in its call
  call,     \* per caller: the call in progress
  items,    \* per caller: the local list of RequestItem
  wdata,    \* per caller: the document being written by _write_db_unlocked
  wret,     \* per caller: where _write_db_unlocked returns to
  ret,      \* per caller: the value returned
  alive,    \* FALSE once the process has crashed
  ncalls,   \* calls issued so far
  made,     \* history, per caller: the id its last add_request returned, the
            \* row it created, and whether a delete_request has been committed
            \* since; recorded where callers interleave (Release, Rename)
  clock,    \* the UTC clock
  selectors, \* Discord: the RequestChoiceSelect objects open
  views,    \* the admin messages that carry a request id: Discord
            \* StatusSelectView, Telegram status and confirmation buttons
  user_data, \* Telegram: context.user_data of each user
  sent,     \* Discord: the notifications sent to the notification channel
  run,      \* the last handler run: how many ran so far, the acting user, the
            \* handler, what it answered, and the request id and row it
            \* worked on
  nadds,    \* history, per Discord user: add_request calls made for the user
            \* on the current UTC day
  loop,     \* the asyncio event loop: the coroutine it is running, and where
            \* each handler coroutine in flight is
  overview  \* Discord: REQUEST_LIST_CHANNEL_ID, LIST_OVERVIEW_MESSAGE_ID, the
            \* overview messages that exist, the refresh task and the
            \* !panel_list commands in flight

botvars == <<clock, selectors, views, user_data, sent, run, nadds, loop, overview>>

vars ==
  <<file, tmp, lock, pc, call, items, wdata, wret, ret, alive, ncalls, made, botvars>>

locals == <<items, wdata, wret>>

\* Clock readings: two UTC days.
Day1 == [Y |-> "2026", M |-> "01", D |-> "01", T |-> "10:00:00"]
Day2 == [Y |-> "2026", M |-> "01", D |-> "02", T |-> "09:30:00"]

\* Users of the two chats, by the text of their id; "43" is listed in
\* UNLIMITED_USER_IDS.
DiscordUsers == {"42", "43"}
UNLIMITED_USER_IDS == {"43"}
DiscordAdmin == "1295044197019291791"
TelegramUsers == {"77"}
TelegramAdmin == "7215183563"

\* context.user_data after clear().
NoUserData == [flow |-> "", step |-> "", title |-> <<>>, year |-> 0]

\* The two handler coroutines the model keeps in flight at once.
Coros == {"c1", "c2"}

\* A free coroutine slot: h is the handler, at the Store call or await it is
\* at, k the number of Store calls issued before its current one, out what
\* it is about to answer; the other fields are its arguments and locals.
NoCo ==
  [h |-> "", at |-> "idle", k |-> 0, out |-> "", u |-> "", title |-> <<>>, year |-> 0,
   category |-> "", id |-> 0, is_available |-> FALSE, notif |-> "", row |-> <<>>]

NoRun == [n |-> 0, u |-> "", h |-> "", out |-> "", id |-> 0, row |-> <<>>]

\* The channels !panel_list is typed in, by id; ListChannel is the value
\* REQUEST_LIST_CHANNEL_ID has when the list channel is configured.
ListChannel == 500
OtherChannel == 600
Channels == {ListChannel, OtherChannel}

\* The !panel_list commands the model keeps in flight at once.
Commands == {"k1", "k2"}

\* A coroutine of the overview that is not running; id is the message id it
\* passed to fetch_message, channel the channel of the command.
NoTask == [at |-> "idle", id |-> 0, channel |-> 0]

\* The bot just started with REQUEST_LIST_CHANNEL_ID = list_channel_id; did is
\* what the last step of the overview did, and to which message.
NoOverview(list_channel_id) ==
  [REQUEST_LIST_CHANNEL_ID |-> list_channel_id,
   LIST_OVERVIEW_MESSAGE_ID |-> 0,
   messages |-> {},
   n |-> 0,
   task |-> NoTask,
   command |-> [k \in Commands |-> NoTask],
   did |-> [by |-> "", what |-> "", id |-> 0]]

\* The adapters just started: nothing open, nothing sent.
ChatInit ==
  /\ clock = Day1
  /\ selectors = {}
  /\ views = {}
  /\ user_data = [u \in TelegramUsers \cup {TelegramAdmin} |-> NoUserData]
  /\ sent = {}
  /\ run = NoRun
  /\ nadds = [u \in DiscordUsers |-> 0]
  /\ loop = [cur |-> "none", co |-> [c \in Coros |-> NoCo]]

\* REQUEST_LIST_CHANNEL_ID has its default, 0.
BotInit == ChatInit /\ overview = NoOverview(0)

\* The caller holds no id returned by add_request.
NoneMade == [k |-> 0, row |-> <<>>, deleted |-> FALSE]

StoreInit ==
  /\ file = Absent
  /\ tmp = Absent
  /\ lock = "free"
  /\ pc = [p \in Procs |-> "idle"]
  /\ call = [p \in Procs |-> NoCall]
  /\ items = [p \in Procs |-> <<>>]
  /\ wdata = [p \in Procs |-> Absent]
  /\ wret = [p \in Procs |-> ""]
  /\ ret = [p \in Procs |-> RetNone]
  /\ alive = TRUE
  /\ ncalls = 0
  /\ made = [p \in Procs |-> NoneMade]

Init == StoreInit /\ BotInit

\* ------------------------------------------- files written by older versions
\* Stored objects as older versions or a hand edit left them: a version-1
\* record without "result" and with the legacy status traitee; legacy
\* ajout_dispo with an empty and with a set result; a record with almost no
\* key and a foreign one; a result outside the enum, also under ajout_dispo; a
\* duplicate id; an entry that is not an object.
OldDone ==
  [id |-> 5, user_id |-> "42", platform |-> "discord", title |-> "Dune", year |-> 2021,
   category |-> "film", status |-> "traitee", created_at |-> "2025-12-01 08:00:00"]

OldDispo ==
  [id |-> 2, user_id |-> "77", platform |-> "telegram", title |-> " dune", year |-> 0,
   category |-> "serie", status |-> "ajout_dispo", created_at |-> "2025-12-02 08:00:00",
   result |-> ""]

OldBare == [title |-> "Alien", note |-> "vf"]

OldBadResult ==
  [id |-> 2, user_id |-> "42", platform |-> "discord", title |-> "Heat", year |-> 1995,
   category |-> "film", status |-> "pas_encore_sorti", created_at |-> "2025-12-03 08:00:00",
   result |-> "oui"]

OldDoneDispo ==
  [id |-> 2, user_id |-> "77", platform |-> "telegram", title |-> "Lost", year |-> 2004,
   category |-> "serie", status |-> "traitee", created_at |-> "2025-12-04 08:00:00",
   result |-> "dispo"]

OldNonDispo ==
  [id |-> 1, user_id |-> "42", platform |-> "discord", title |-> "Tenet", year |-> 2020,
   category |-> "film", status |-> "ajout_dispo", created_at |-> "2025-12-05 08:00:00",
   result |-> "non_dispo"]

OldBadDispo ==
  [id |-> 3, user_id |-> "77", platform |-> "telegram", title |-> "Solaris", year |-> 1972,
   category |-> "film", status |-> "ajout_dispo", created_at |-> "2025-12-06 08:00:00",
   result |-> "oui"]

NonDict == [nondict |-> TRUE]

\* The backing files SpecLoad starts from.
OldFiles ==
  { DocWith("object", 1, {<<"owner", "infinity">>}, {<<"exported", "2025-12-01">>},
            <<OldDone, OldDispo, OldBare>>),
    DocWith("missing", 0, {}, {}, <<OldBadResult, OldDoneDispo>>),
    DocWith("other", 0, {}, {<<"exported", "2025-12-06">>}, <<OldNonDispo, NonDict, OldBadDispo>>),
    Corrupt }

InitLoad ==
  /\ file \in OldFiles
  /\ tmp = Absent
  /\ lock = "free"
  /\ pc = [p \in Procs |-> "idle"]
  /\ call = [p \in Procs |-> NoCall]
  /\ items = [p \in Procs |-> <<>>]
  /\ wdata = [p \in Procs |-> Absent]
  /\ wret = [p \in Procs |-> ""]
  /\ ret = [p \in Procs |-> RetNone]
  /\ alive = TRUE
  /\ ncalls = 0
  /\ made = [p \in Procs |-> NoneMade]
  /\ BotInit

\* Number of records a load of the file yields.
Count(f) == Len(read_db_data(f).requests)

\* --------------------------------------- operations, each one atomic step
\* A call may be issued: the process is up, the caller is between calls and
\* the bounds leave room for it.
Begin(p, c, name) ==
  /\ alive
  /\ lock = "free"
  /\ pc[p] = "idle"
  /\ c.op = name
  /\ ncalls < MaxCalls
  /\ name = "add_request" => Count(file) < MaxRecords

\* with _LOCK: load, body, save when the body asks for it.
Locked(p, c) ==
  LET f1 == read_db_file(file)
      b == OpBody(load_requests(read_db_data(f1)), c)
  IN /\ file' = IF b.save THEN save_requests(read_db_data(f1), b.items) ELSE f1
     /\ ret' = [ret EXCEPT ![p] = b.ret]

\* The call has returned: call[p] and ret[p] record it and its value.
End(p, c) ==
  /\ call' = [call EXCEPT ![p] = c]
  /\ ncalls' = ncalls + 1
  /\ UNCHANGED <<tmp, lock, pc, locals, alive, made, botvars>>

init_db(p, c) ==
  /\ Begin(p, c, "init_db")
  /\ file' = read_db_file(file)
  /\ ret' = [ret EXCEPT ![p] = RetNone]
  /\ End(p, c)

add_request(p, c) == Begin(p, c, "add_request") /\ Locked(p, c) /\ End(p, c)

list_all_requests(p, c) == Begin(p, c, "list_all_requests") /\ Locked(p, c) /\ End(p, c)

list_open_requests(p, c) == Begin(p, c, "list_open_requests") /\ Locked(p, c) /\ End(p, c)

update_status(p, c) == Begin(p, c, "update_status") /\ Locked(p, c) /\ End(p, c)

update_result(p, c) ==
  /\ Begin(p, c, "update_result")
  /\ IF result_code_ok(c.result_code)
       THEN Locked(p, c)
       ELSE file' = file /\ ret' = [ret EXCEPT ![p] = RetBool(FALSE)]
  /\ End(p, c)

delete_request(p, c) == Begin(p, c, "delete_request") /\ Locked(p, c) /\ End(p, c)

\* The single caller of Spec.
Caller == "p1"

Next ==
  \/ \E c \in InitCalls : init_db(Caller, c)
  \/ \E c \in AddCalls : add_request(Caller, c)
  \/ \E c \in ListAllCalls : list_all_requests(Caller, c)
  \/ \E c \in ListOpenCalls : list_open_requests(Caller, c)
  \/ \E c \in StatusCalls : update_status(Caller, c)
  \/ \E c \in ResultCalls : update_result(Caller, c)
  \/ \E c \in DeleteCalls : delete_request(Caller, c)

Spec == Init /\ [][Next]_vars

\* The same operations on a backing file left by an older version, called
\* with fewer arguments.
LoadCalls ==
  InitCalls \cup ListAllCalls \cup ListOpenCalls
    \cup {c \in AddCalls : c.status = DEFAULT_STATUS /\ c.payload.platform = "telegram"}
    \cup {c \in StatusCalls : c.status \in {"en_cours", "traitee"} /\ c.request_id \in {1, 99}}
    \cup {c \in ResultCalls : c.result_code \in {"non_dispo", "peut-etre"} /\ c.request_id = 1}
    \cup {c \in DeleteCalls : c.request_id \in {2, 99}}

NextLoad ==
  \/ \E c \in LoadCalls : init_db(Caller, c)
  \/ \E c \in LoadCalls : add_request(Caller, c)
  \/ \E c \in LoadCalls : list_all_requests(Caller, c)
  \/ \E c \in LoadCalls : list_open_requests(Caller, c)
  \/ \E c \in LoadCalls : update_status(Caller, c)
  \/ \E c \in LoadCalls : update_result(Caller, c)
  \/ \E c \in LoadCalls : delete_request(Caller, c)

SpecLoad == InitLoad /\ [][NextLoad]_vars

\* ------------------------------- the same operations, step by step (SpecConc)
\* Positions of a caller inside a call; from "load" to "release" it is inside
\* the with _LOCK block.
LockedPcs == {"load", "body", "save", "w_open", "w_text", "w_rename", "release"}

InCritical(p) == pc[p] \in LockedPcs

\* The call is issued. update_result checks its code first and returns False
\* at once on a bad one; every other call goes on to take the lock.
Call(p, c) ==
  /\ alive
  /\ pc[p] = "idle"
  /\ ncalls < MaxCalls
  /\ c.op = "add_request" =>
       Count(file) + Cardinality({q \in Procs : pc[q] # "idle" /\ call[q].op = "add_request"})
         < MaxRecords
  /\ call' = [call EXCEPT ![p] = c]
  /\ ncalls' = ncalls + 1
  /\ IF c.op = "update_result" /\ ~result_code_ok(c.result_code)
       THEN /\ pc' = pc
            /\ ret' = [ret EXCEPT ![p] = RetBool(FALSE)]
       ELSE /\ pc' = [pc EXCEPT ![p] = "acquire"]
            /\ ret' = [ret EXCEPT ![p] = RetNone]
  /\ UNCHANGED <<file, tmp, lock, locals, alive, made, botvars>>

\* Mutant of Acquire: the block is entered without waiting for the lock.
AcquireNoWait(p) ==
  /\ alive
  /\ pc[p] = "acquire"
  /\ lock' = p
  /\ pc' = [pc EXCEPT ![p] = "load"]
  /\ UNCHANGED <<file, tmp, call, locals, ret, alive, ncalls, made, botvars>>

\* with _LOCK: blocks until the lock is free, then holds it.
Acquire(p) ==
  /\ alive
  /\ pc[p] = "acquire"
  /\ lock = "free"
  /\ lock' = p
  /\ pc' = [pc EXCEPT ![p] = "load"]
  /\ UNCHANGED <<file, tmp, call, locals, ret, alive, ncalls, made, botvars>>

\* _read_db_unlocked at the start of the block: an absent file is first
\* written empty, an existing one is read and, but for init_db, loaded.
Load(p) ==
  /\ alive
  /\ pc[p] = "load"
  /\ items' = [items EXCEPT ![p] = load_requests(read_db_data(file))]
  /\ IF file.kind = "absent"
       THEN /\ wdata' = [wdata EXCEPT ![p] = empty_db]
            /\ wret' = [wret EXCEPT ![p] = "body"]
            /\ pc' = [pc EXCEPT ![p] = "w_open"]
       ELSE /\ pc' = [pc EXCEPT ![p] = "body"]
            /\ UNCHANGED <<wdata, wret>>
  /\ UNCHANGED <<file, tmp, lock, call, ret, alive, ncalls, made, botvars>>

\* Mutant of Run: the with block ends after the body, so the save runs
\* without the lock.
RunThenUnlock(p) ==
  /\ alive
  /\ pc[p] = "body"
  /\ LET b == OpBody(items[p], call[p])
     IN /\ items' = [items EXCEPT ![p] = IF b.save THEN b.items ELSE <<>>]
        /\ ret' = [ret EXCEPT ![p] = b.ret]
        /\ pc' = [pc EXCEPT ![p] = IF b.save THEN "save" ELSE "release"]
  /\ lock' = "free"
  /\ UNCHANGED <<file, tmp, call, wdata, wret, alive, ncalls, made, botvars>>

\* The in-memory part of the operation, on the items loaded.
Run(p) ==
  /\ alive
  /\ pc[p] = "body"
  /\ LET b == OpBody(items[p], call[p])
     IN /\ items' = [items EXCEPT ![p] = IF b.save THEN b.items ELSE <<>>]
        /\ ret' = [ret EXCEPT ![p] = b.ret]
        /\ pc' = [pc EXCEPT ![p] = IF b.save THEN "save" ELSE "release"]
  /\ UNCHANGED <<file, tmp, lock, call, wdata, wret, alive, ncalls, made, botvars>>

\* Mutant of Save: data["requests"] is not assigned, the document read is
\* written back.
SaveAsRead(p) ==
  /\ alive
  /\ pc[p] = "save"
  /\ IF file.kind = "absent"
       THEN /\ wdata' = [wdata EXCEPT ![p] = empty_db]
            /\ wret' = [wret EXCEPT ![p] = "save"]
            /\ UNCHANGED items
       ELSE /\ wdata' = [wdata EXCEPT ![p] = read_db_data(file)]
            /\ wret' = [wret EXCEPT ![p] = "release"]
            /\ items' = [items EXCEPT ![p] = <<>>]
  /\ pc' = [pc EXCEPT ![p] = "w_open"]
  /\ UNCHANGED <<file, tmp, lock, call, ret, alive, ncalls, made, botvars>>

\* _save_requests_unlocked: reads the file again and builds the document.
Save(p) ==
  /\ alive
  /\ pc[p] = "save"
  /\ IF file.kind = "absent"
       THEN /\ wdata' = [wdata EXCEPT ![p] = empty_db]
            /\ wret' = [wret EXCEPT ![p] = "save"]
            /\ UNCHANGED items
       ELSE /\ wdata' = [wdata EXCEPT ![p] = save_requests(read_db_data(file), items[p])]
            /\ wret' = [wret EXCEPT ![p] = "release"]
            /\ items' = [items EXCEPT ![p] = <<>>]
  /\ pc' = [pc EXCEPT ![p] = "w_open"]
  /\ UNCHANGED <<file, tmp, lock, call, ret, alive, ncalls, made, botvars>>

\* Mutant of WriteOpen: the backing file itself is opened for writing.
WriteOpenInPlace(p) ==
  /\ alive
  /\ pc[p] = "w_open"
  /\ file' = Partial
  /\ pc' = [pc EXCEPT ![p] = "w_text"]
  /\ UNCHANGED <<tmp, lock, call, locals, ret, alive, ncalls, made, botvars>>

\* _write_db_unlocked, tmp_path.write_text: the temporary file is opened
\* (created or truncated) ...
WriteOpen(p) ==
  /\ alive
  /\ pc[p] = "w_open"
  /\ tmp' = Partial
  /\ pc' = [pc EXCEPT ![p] = "w_text"]
  /\ UNCHANGED <<file, lock, call, locals, ret, alive, ncalls, made, botvars>>

\* ... and the whole document is written to it.
WriteText(p) ==
  /\ alive
  /\ pc[p] = "w_text"
  /\ tmp' = wdata[p]
  /\ pc' = [pc EXCEPT ![p] = "w_rename"]
  /\ UNCHANGED <<file, lock, call, locals, ret, alive, ncalls, made, botvars>>

\* tmp_path.replace(_DB_PATH): the temporary file becomes the backing file.
Rename(p) ==
  /\ alive
  /\ pc[p] = "w_rename"
  /\ file' = tmp
  /\ tmp' = Absent
  /\ pc' = [pc EXCEPT ![p] = wret[p]]
  /\ wdata' = [wdata EXCEPT ![p] = Absent]
  /\ wret' = [wret EXCEPT ![p] = ""]
  /\ made' = IF call[p].op = "delete_request" /\ wret[p] = "release"
               THEN [q \in Procs |-> [made[q] EXCEPT !.deleted = (made[q].k > 0)]]
               ELSE made
  /\ UNCHANGED <<lock, call, items, ret, alive, ncalls, botvars>>

\* The row the caller of add_request c expects under the id k it was given.
Created(c, k) ==
  <<k, c.payload.user_id, c.payload.platform, c.payload.title, c.payload.year,
    c.payload.category, c.status, c.now, "">>

\* Mutant of Release: the call returns with the lock still held.
ReleaseHolding(p) ==
  /\ alive
  /\ pc[p] = "release"
  /\ lock' = lock
  /\ pc' = [pc EXCEPT ![p] = "idle"]
  /\ made' = made
  /\ UNCHANGED <<file, tmp, call, locals, ret, alive, ncalls, botvars>>

\* Leaving the with block releases the lock; the call returns ret[p].
Release(p) ==
  /\ alive
  /\ pc[p] = "release"
  /\ lock' = "free"
  /\ pc' = [pc EXCEPT ![p] = "idle"]
  /\ made' = IF call[p].op = "add_request"
               THEN [made EXCEPT ![p] = [k |-> ret[p].n,
                                         row |-> Created(call[p], ret[p].n),
                                         deleted |-> FALSE]]
               ELSE made
  /\ UNCHANGED <<file, tmp, call, locals, ret, alive, ncalls, botvars>>

\* The process dies: memory (callers, lock) is gone, the files stay.
Crash ==
  /\ alive
  /\ alive' = FALSE
  /\ lock' = "free"
  /\ pc' = [p \in Procs |-> "idle"]
  /\ call' = [p \in Procs |-> NoCall]
  /\ items' = [p \in Procs |-> <<>>]
  /\ wdata' = [p \in Procs |-> Absent]
  /\ wret' = [p \in Procs |-> ""]
  /\ ret' = [p \in Procs |-> RetNone]
  /\ made' = [p \in Procs |-> NoneMade]
  /\ UNCHANGED <<file, tmp, ncalls, botvars>>

NextConc ==
  \/ \E p \in Procs : \E c \in ConcCalls : Call(p, c)
  \/ \E p \in Procs : Acquire(p)
  \/ \E p \in Procs : Load(p)
  \/ \E p \in Procs : Run(p)
  \/ \E p \in Procs : Save(p)
  \/ \E p \in Procs : WriteOpen(p)
  \/ \E p \in Procs : WriteText(p)
  \/ \E p \in Procs : Rename(p)
  \/ \E p \in Procs : Release(p)
  \/ Crash

SpecConc == Init /\ [][NextConc]_vars

\* ------------------------------------------- I/O errors (SpecFault)
\* _DB_PATH.exists() fails (the directory cannot be searched): the error is
\* raised outside the try block and leaves the with block and the call.
StatRaises(p) ==
  /\ alive
  /\ pc[p] = "load"
  /\ pc' = [pc EXCEPT ![p] = "idle"]
  /\ lock' = "free"
  /\ ret' = [ret EXCEPT ![p] = RetRaise]
  /\ items' = [items EXCEPT ![p] = <<>>]
  /\ UNCHANGED <<file, tmp, call, wdata, wret, alive, ncalls, made, botvars>>

\* _DB_PATH.read_text() fails on a file that exists (permission denied, I/O
\* error): except Exception catches it and _empty_db() is what was read.
ReadFails(p) ==
  /\ alive
  /\ pc[p] = "load"
  /\ file.kind # "absent"
  /\ items' = [items EXCEPT ![p] = load_requests(empty_db)]
  /\ pc' = [pc EXCEPT ![p] = "body"]
  /\ UNCHANGED <<file, tmp, lock, call, wdata, wret, ret, alive, ncalls, made, botvars>>

\* Mutant of WriteRaises: the error leaves the call with the lock held.
WriteRaisesHolding(p) ==
  /\ alive
  /\ pc[p] \in {"w_open", "w_text", "w_rename"}
  /\ pc' = [pc EXCEPT ![p] = "idle"]
  /\ lock' = lock
  /\ ret' = [ret EXCEPT ![p] = RetRaise]
  /\ items' = [items EXCEPT ![p] = <<>>]
  /\ wdata' = [wdata EXCEPT ![p] = Absent]
  /\ wret' = [wret EXCEPT ![p] = ""]
  /\ UNCHANGED <<file, tmp, call, alive, ncalls, made, botvars>>

\* _write_db_unlocked fails: mkdir or the opening of the temporary file, the
\* writing of the text (disk full), or replace(). Nothing catches the error:
\* it leaves the with block, which releases the lock, and the call.
WriteRaises(p) ==
  /\ alive
  /\ pc[p] \in {"w_open", "w_text", "w_rename"}
  /\ pc' = [pc EXCEPT ![p] = "idle"]
  /\ lock' = "free"
  /\ ret' = [ret EXCEPT ![p] = RetRaise]
  /\ items' = [items EXCEPT ![p] = <<>>]
  /\ wdata' = [wdata EXCEPT ![p] = Absent]
  /\ wret' = [wret EXCEPT ![p] = ""]
  /\ UNCHANGED <<file, tmp, call, alive, ncalls, made, botvars>>

NextFault ==
  \/ NextConc
  \/ \E p \in Procs : StatRaises(p)
  \/ \E p \in Procs : ReadFails(p)
  \/ \E p \in Procs : WriteRaises(p)

SpecFault == Init /\ [][NextFault]_vars

\* ------------------------------------- progress of the calls (SpecLive)
\* The calls of SpecLive: one that writes, one that returns False without
\* writing, one that only reads.
LiveCalls ==
  ListAllCalls
    \cup {c \in AddCalls : c.status = DEFAULT_STATUS /\ c.payload.platform = "discord"}
    \cup {c \in DeleteCalls : c.request_id = 1}

\* The next step of caller p inside its call; taking the lock waits for it.
Step(p) ==
  \/ Acquire(p)
  \/ Load(p)
  \/ Run(p)
  \/ Save(p)
  \/ WriteOpen(p)
  \/ WriteText(p)
  \/ Rename(p)
  \/ Release(p)

\* The process does not crash; file operations end, with or without error.
NextLive ==
  \/ \E p \in Procs : \E c \in LiveCalls : ncalls < MaxLiveCalls /\ Call(p, c)
  \/ \E p \in Procs : Step(p)
  \/ \E p \in Procs : StatRaises(p)
  \/ \E p \in Procs : ReadFails(p)
  \/ \E p \in Procs : WriteRaises(p)

\* Every thread inside a call is scheduled again.
SpecLive == Init /\ [][NextLive]_vars /\ \A p \in Procs : WF_vars(Step(p))

\* ======================================================== the chat adapters
\* Texts the adapters work on are sequences of characters.
Whitespace == {" ", "\t", "\n"}

\* str.strip()
RECURSIVE lstrip(_)
lstrip(s) == IF s # <<>> /\ Head(s) \in Whitespace THEN lstrip(Tail(s)) ELSE s

RECURSIVE rstrip(_)
rstrip(s) ==
  IF s # <<>> /\ s[Len(s)] \in Whitespace THEN rstrip(SubSeq(s, 1, Len(s) - 1)) ELSE s

strip(s) == rstrip(lstrip(s))

\* str.lower(), on the letters the inputs are written with
LowerOf(ch) ==
  CASE ch = "A" -> "a" [] ch = "D" -> "d" [] ch = "E" -> "e" [] ch = "N" -> "n"
    [] ch = "U" -> "u" [] OTHER -> ch

lower(s) == [i \in 1..Len(s) |-> LowerOf(s[i])]

\* str.startswith
startswith(s, prefix) == Len(prefix) <= Len(s) /\ SubSeq(s, 1, Len(prefix)) = prefix

\* int(text): an optional sign and decimal digits after stripping; anything
\* else raises ValueError, written NotInt.
DigitOf(ch) ==
  CASE ch = "0" -> 0 [] ch = "1" -> 1 [] ch = "2" -> 2 [] ch = "3" -> 3 [] ch = "4" -> 4
    [] ch = "5" -> 5 [] ch = "6" -> 6 [] ch = "7" -> 7 [] ch = "8" -> 8 [] ch = "9" -> 9
    [] OTHER -> -1

NotInt == [ok |-> FALSE, n |-> 0]

RECURSIVE digits(_, _)
digits(s, acc) ==
  IF s = <<>> THEN [ok |-> TRUE, n |-> acc]
  ELSE IF DigitOf(Head(s)) < 0 THEN NotInt
  ELSE digits(Tail(s), 10 * acc + DigitOf(Head(s)))

int(text) ==
  LET s == strip(text)
      body == IF s # <<>> /\ Head(s) \in {"-", "+"} THEN Tail(s) ELSE s
      d == IF body = <<>> THEN NotInt ELSE digits(body, 0)
  IN IF d.ok /\ s # <<>> /\ Head(s) = "-" THEN [ok |-> TRUE, n |-> 0 - d.n] ELSE d

\* text.split("-", 1)[0]
RECURSIVE before_dash(_)
before_dash(s) ==
  IF s = <<>> \/ Head(s) = "-" THEN <<>> ELSE <<Head(s)>> \o before_dash(Tail(s))

\* ---- clock
\* _utc_now_iso(): "%Y-%m-%d %H:%M:%S"
utc_now_iso(t) == <<t.Y, "-", t.M, "-", t.D, " ", t.T>>

\* datetime.utcnow().strftime("%Y-%m-%d")
today_str(t) == <<t.Y, "-", t.M, "-", t.D>>

\* ---- a Store call made by a handler: the file it leaves and what it returns
Store(f, c) ==
  IF c.op = "update_result" /\ ~result_code_ok(c.result_code)
    THEN [file |-> f, ret |-> RetBool(FALSE)]
    ELSE LET f1 == read_db_file(f)
             b == OpBody(load_requests(read_db_data(f1)), c)
         IN [file |-> IF b.save THEN save_requests(read_db_data(f1), b.items) ELSE f1,
             ret |-> b.ret]

\* ---- helpers of discord_bot.py, on the rows list_all_requests returned
\* Mutant of find_duplicate_request: titles are compared as they are.
RECURSIVE find_duplicate_exact(_, _, _, _)
find_duplicate_exact(rows, title, year, category) ==
  IF rows = <<>> THEN <<>>
  ELSE IF Head(rows)[4] = title /\ Head(rows)[5] = year /\ Head(rows)[6] = category
         THEN Head(rows)
  ELSE find_duplicate_exact(Tail(rows), title, year, category)

\* The first row with the same stripped lower-case title, year and category;
\* None is written <<>>.
RECURSIVE find_duplicate_request(_, _, _, _)
find_duplicate_request(rows, title, year, category) ==
  IF rows = <<>> THEN <<>>
  ELSE IF /\ lower(strip(Head(rows)[4])) = lower(strip(title))
          /\ Head(rows)[5] = year
          /\ Head(rows)[6] = category
         THEN Head(rows)
  ELSE find_duplicate_request(Tail(rows), title, year, category)

RECURSIVE get_request_by_id(_, _)
get_request_by_id(rows, request_id) ==
  IF rows = <<>> THEN <<>>
  ELSE IF Head(rows)[1] = request_id THEN Head(rows)
  ELSE get_request_by_id(Tail(rows), request_id)

list_requests_by_user(rows, user_id) == SelectSeq(rows, LAMBDA r : r[2] = user_id)

count_user_requests_today(rows, user_id, t) ==
  Len(SelectSeq(list_requests_by_user(rows, user_id),
                LAMBDA r : startswith(r[8], today_str(t))))

\* ---- TMDB
\* Items of a search/multi response: media_type, title or name, and the
\* release or first-air date.
TmdbItem(mt, title, date) == [media_type |-> mt, title |-> title, date |-> date]

TmdbResponse ==
  << TmdbItem("movie", <<"D", "u", "n", "e">>, <<"2", "0", "2", "1", "-", "0", "9", "-", "1", "5">>),
     TmdbItem("person", <<"D", "u", "n">>, <<>>),
     TmdbItem("movie", <<"D", "u", "n", "e">>, <<"1", "9", "8", "4", "-", "1", "2", "-", "1", "4">>),
     TmdbItem("tv", <<"D", "U", "N", "E">>, <<>>) >>

\* What search_titles_from_tmdb makes of the items: title, year, category.
search_titles_from_tmdb(resp) ==
  LET kept == SelectSeq(resp, LAMBDA it : it.media_type \in {"movie", "tv"})
      year(it) == IF it.date = <<>> THEN 0
                  ELSE IF int(before_dash(it.date)).ok THEN int(before_dash(it.date)).n ELSE 0
  IN [i \in 1..Len(kept) |->
        [title |-> kept[i].title, year |-> year(kept[i]),
         category |-> IF kept[i].media_type = "movie" THEN "film" ELSE "serie"]]

\* ---- handler runs
\* A handler run changes the adapters' state and, through Store calls, the
\* backing file; the Store's own variables are as they were between calls.
storevars == <<tmp, lock, pc, call, locals, ret, alive, ncalls, made>>

Ran(u, h, out, id, row) ==
  /\ alive
  /\ lock = "free"
  /\ loop.cur = "none"
  /\ run.n < MaxRuns
  /\ run' = [n |-> run.n + 1, u |-> u, h |-> h, out |-> out, id |-> id, row |-> row]

\* NewRequestModal.on_submit: the TMDB search succeeded (resp) or failed
\* (<<>>); with results a selector is shown to the user.
NewRequestModal_on_submit(u, resp) ==
  LET results == search_titles_from_tmdb(resp)
  IN /\ IF results = <<>>
          THEN Ran(u, "NewRequestModal", "not_found", 0, <<>>) /\ UNCHANGED selectors
          ELSE /\ selectors' = selectors \cup {[requester_id |-> u, results |-> results]}
               /\ Ran(u, "NewRequestModal", "selector", 0, <<>>)
     /\ UNCHANGED <<file, storevars, overview, loop, clock, views, user_data, sent, nadds>>

\* RequestChoiceSelect.callback: user u picks option idx of selector s.
RequestChoiceSelect_callback(s, u, idx) ==
  LET data == s.results[idx]
      f1 == read_db_file(file)
      rows == View(f1)
      existing == find_duplicate_request(rows, data.title, data.year, data.category)
      c == MkCall("add_request",
                  [user_id |-> s.requester_id, platform |-> "discord", title |-> data.title,
                   year |-> data.year, category |-> data.category],
                  DEFAULT_STATUS, utc_now_iso(clock), 0, "")
      added == Store(f1, c)
  IN /\ s \in selectors
     /\ idx \in 1..Len(s.results)
     /\ IF u # s.requester_id
          THEN Ran(u, "RequestChoiceSelect", "denied", 0, <<>>) /\ UNCHANGED <<file, nadds>>
        ELSE IF /\ s.requester_id \notin UNLIMITED_USER_IDS
                /\ count_user_requests_today(rows, s.requester_id, clock) >= 3
          THEN Ran(u, "RequestChoiceSelect", "limit", 0, <<>>) /\ file' = f1 /\ UNCHANGED nadds
        ELSE IF existing # <<>>
          THEN Ran(u, "RequestChoiceSelect", "duplicate", 0, existing)
               /\ file' = f1 /\ UNCHANGED nadds
        ELSE /\ Count(f1) < MaxRecords
             /\ file' = added.file
             /\ nadds' = [nadds EXCEPT ![s.requester_id] = @ + 1]
             /\ Ran(u, "RequestChoiceSelect", "registered", added.ret.n, <<>>)
     /\ UNCHANGED <<storevars, overview, loop, clock, selectors, views, user_data, sent>>

\* Fewer handler runs than MaxRuns.
Few == run.n < FewRuns

\* ---- Discord, admin panel (REQUEST_ADMIN_CHANNEL_ID is 0: any channel)
DiscordPeople == DiscordUsers \cup {DiscordAdmin}

\* Mutant of is_admin: every user passes.
is_admin_anyone(u) == TRUE

is_admin(u) == u = DiscordAdmin

\* Ids typed into the admin modals and the Telegram chat.
IdTexts == {<<"1">>, <<" ", "2">>}

\* A message that carries a request id: the kind of message, the id, and (as
\* history) the row that had the id when the message was made.
ViewOf(kind, id, row) == [kind |-> kind, id |-> id, row |-> row]

\* ChangeStatusModal.on_submit: shows a StatusSelectView for the id.
ChangeStatusModal_on_submit(u, text) ==
  LET n == int(strip(text))
      f1 == read_db_file(file)
      row == get_request_by_id(View(f1), n.n)
  IN /\ IF ~is_admin(u)
          THEN Ran(u, "ChangeStatusModal", "denied", 0, <<>>) /\ UNCHANGED <<file, views>>
        ELSE IF ~n.ok
          THEN Ran(u, "ChangeStatusModal", "not_a_number", 0, <<>>) /\ UNCHANGED <<file, views>>
        ELSE IF row = <<>>
          THEN Ran(u, "ChangeStatusModal", "not_found", n.n, <<>>)
               /\ file' = f1 /\ UNCHANGED views
        ELSE /\ Ran(u, "ChangeStatusModal", "view", n.n, row)
             /\ file' = f1
             /\ views' = views \cup {ViewOf("StatusSelectView", n.n, row)}
     /\ UNCHANGED <<storevars, overview, loop, clock, selectors, user_data, sent, nadds>>

\* Statuses chosen in the selects and buttons of the model.
DiscordStatusChoices == {"en_cours"}

\* StatusSelect.callback on an open StatusSelectView.
StatusSelect_callback(v, u, new_status) ==
  LET c == MkCall("update_status", NoPayload, new_status, "", v.id, "")
      done == Store(file, c)
  IN /\ v \in views
     /\ v.kind = "StatusSelectView"
     /\ IF ~is_admin(u)
          THEN Ran(u, "StatusSelect", "denied", 0, <<>>) /\ UNCHANGED file
          ELSE /\ Ran(u, "StatusSelect", IF done.ret.b THEN "updated" ELSE "not_found", v.id, v.row)
               /\ file' = done.file
     /\ UNCHANGED <<storevars, overview, loop, clock, selectors, views, user_data, sent, nadds>>

\* DeleteRequestModal.on_submit
DeleteRequestModal_on_submit(u, text) ==
  LET n == int(strip(text))
      done == Store(file, MkCall("delete_request", NoPayload, "", "", n.n, ""))
  IN /\ IF ~is_admin(u)
          THEN Ran(u, "DeleteRequestModal", "denied", 0, <<>>) /\ UNCHANGED file
        ELSE IF ~n.ok
          THEN Ran(u, "DeleteRequestModal", "not_a_number", 0, <<>>) /\ UNCHANGED file
        ELSE /\ Ran(u, "DeleteRequestModal", IF done.ret.b THEN "deleted" ELSE "not_found",
                     n.n, <<>>)
             /\ file' = done.file
     /\ UNCHANGED <<storevars, overview, loop, clock, selectors, views, user_data, sent, nadds>>

\* What becomes of the notification in ResultRequestModal.on_submit: the
\* channel id is 0 (the default), get_channel finds no channel, the send
\* raises, or the message is sent.
NotifOutcomes == {"unconfigured", "no_channel", "send_raises", "sent"}

Notification(row, is_available) ==
  [mention |-> row[2], id |-> row[1], title |-> row[4], year |-> row[5],
   category |-> row[6], is_available |-> is_available]

\* ResultRequestModal.on_submit
ResultRequestModal_on_submit(u, text, is_available, notif) ==
  LET n == int(strip(text))
      f1 == read_db_file(file)
      row == get_request_by_id(View(f1), n.n)
      result_code == IF is_available THEN "dispo" ELSE "non_dispo"
      done == Store(f1, MkCall("update_result", NoPayload, "", "", n.n, result_code))
  IN /\ IF ~is_admin(u)
          THEN Ran(u, "ResultRequestModal", "denied", 0, <<>>) /\ UNCHANGED <<file, sent>>
        ELSE IF ~n.ok
          THEN Ran(u, "ResultRequestModal", "not_a_number", 0, <<>>) /\ UNCHANGED <<file, sent>>
        ELSE IF row = <<>>
          THEN Ran(u, "ResultRequestModal", "not_found", n.n, <<>>)
               /\ file' = f1 /\ UNCHANGED sent
        ELSE IF ~done.ret.b
          THEN Ran(u, "ResultRequestModal", "not_updated", n.n, row)
               /\ file' = done.file /\ UNCHANGED sent
        ELSE /\ file' = done.file
             /\ Ran(u, "ResultRequestModal", notif, n.n, row)
             /\ sent' = IF notif = "sent"
                           THEN sent \cup {Notification(row, is_available)} ELSE sent
     /\ UNCHANGED <<storevars, overview, loop, clock, selectors, views, user_data, nadds>>

\* ---- Telegram
TelegramPeople == TelegramUsers \cup {TelegramAdmin}

is_admin_telegram(u) == u = TelegramAdmin

SetUserData(u, d) == user_data' = [user_data EXCEPT ![u] = d]

\* callback_handler, data "new_request"
callback_new_request(u) ==
  /\ Ran(u, "callback_handler", "new_request", 0, <<>>)
  /\ SetUserData(u, [NoUserData EXCEPT !.flow = "create", !.step = "title"])
  /\ UNCHANGED <<file, storevars, overview, loop, clock, selectors, views, sent, nadds>>

\* callback_handler, data "admin_change_status" and "admin_delete"
callback_admin(u, data) ==
  /\ IF ~is_admin_telegram(u)
       THEN Ran(u, "callback_handler", "denied", 0, <<>>) /\ UNCHANGED user_data
       ELSE /\ Ran(u, "callback_handler", data, 0, <<>>)
            /\ SetUserData(u, [NoUserData EXCEPT
                                  !.flow = IF data = "admin_change_status"
                                             THEN "admin_change_status_wait_id"
                                             ELSE "admin_delete_wait_id"])
  /\ UNCHANGED <<file, storevars, overview, loop, clock, selectors, views, sent, nadds>>

\* callback_handler, data "category:<category>"; replied: the reply_text
\* that follows add_request returned, or it raised (a telegram.error) and the
\* handler ended there.
category_callback(u, category, replied) ==
  LET d == user_data[u]
      added == Store(file, MkCall("add_request",
                                  [user_id |-> u, platform |-> "telegram", title |-> d.title,
                                   year |-> d.year, category |-> category],
                                  DEFAULT_STATUS, utc_now_iso(clock), 0, ""))
  IN /\ IF d.flow # "create" \/ d.step # "category"
          THEN Ran(u, "callback_handler", "ignored", 0, <<>>) /\ UNCHANGED <<file, user_data>>
          ELSE /\ Count(file) < MaxRecords
               /\ file' = added.file
               /\ IF replied
                    THEN /\ Ran(u, "callback_handler", "registered", added.ret.n, <<>>)
                         /\ SetUserData(u, [NoUserData EXCEPT !.flow = "none"])
                    ELSE /\ Ran(u, "callback_handler", "reply_raised", added.ret.n, <<>>)
                         /\ UNCHANGED user_data
     /\ UNCHANGED <<storevars, overview, loop, clock, selectors, views, sent, nadds>>

\* The same with the reply sent.
callback_category(u, category) == category_callback(u, category, TRUE)

\* callback_handler, data "status:<id>:<status>" from a status button
callback_status(v, u, status) ==
  LET done == Store(file, MkCall("update_status", NoPayload, status, "", v.id, ""))
  IN /\ v \in views
     /\ v.kind = "status_buttons"
     /\ IF ~is_admin_telegram(u)
          THEN Ran(u, "callback_handler", "denied", 0, <<>>) /\ UNCHANGED file
          ELSE /\ Ran(u, "callback_status", IF done.ret.b THEN "updated" ELSE "not_found",
                       v.id, v.row)
               /\ file' = done.file
     /\ UNCHANGED <<storevars, overview, loop, clock, selectors, views, user_data, sent, nadds>>

\* callback_handler, data "confirm_delete:<id>:<choice>"
callback_confirm_delete(v, u, choice) ==
  LET done == Store(file, MkCall("delete_request", NoPayload, "", "", v.id, ""))
  IN /\ v \in views
     /\ v.kind = "confirm_buttons"
     /\ IF ~is_admin_telegram(u)
          THEN Ran(u, "callback_handler", "denied", 0, <<>>) /\ UNCHANGED file
        ELSE IF choice = "no"
          THEN Ran(u, "callback_handler", "cancelled", v.id, v.row) /\ UNCHANGED file
        ELSE /\ Ran(u, "callback_confirm_delete", IF done.ret.b THEN "deleted" ELSE "not_found",
                     v.id, v.row)
             /\ file' = done.file
     /\ UNCHANGED <<storevars, overview, loop, clock, selectors, views, user_data, sent, nadds>>

\* format_request_row of telegram_bot.py: the row is unpacked into eight
\* names, which raises ValueError for a row of any other length; else the
\* line shows id, title, year, category, status and platform.
telegram_format_request_row(row) ==
  IF Len(row) # 8
    THEN [raised |-> TRUE, line |-> <<>>]
    ELSE [raised |-> FALSE, line |-> <<row[1], row[4], row[5], row[6], row[7], row[3]>>]

\* rows[:n]
FirstRows(rows, n) == SubSeq(rows, 1, IF Len(rows) < n THEN Len(rows) ELSE n)

\* The listings show at most this many rows.
ListOpenShown == 30
AdminAllShown == 50

\* callback_handler, data "list_open" and "admin_all": the run ends with the
\* lines it replied with, or where format_request_row raised.
callback_list(u, data) ==
  LET c == MkCall(IF data = "list_open" THEN "list_open_requests" ELSE "list_all_requests",
                  NoPayload, "", "", 0, "")
      done == Store(file, c)
      rows == FirstRows(done.ret.rows, IF data = "list_open" THEN ListOpenShown ELSE AdminAllShown)
      lines == [i \in 1..Len(rows) |-> telegram_format_request_row(rows[i])]
  IN /\ IF data = "admin_all" /\ ~is_admin_telegram(u)
          THEN Ran(u, data, "denied", 0, <<>>) /\ UNCHANGED file
        ELSE IF done.ret.rows = <<>>
          THEN Ran(u, data, "empty", 0, <<>>) /\ file' = done.file
        ELSE IF \E i \in 1..Len(lines) : lines[i].raised
          THEN Ran(u, data, "raised", 0, <<>>) /\ file' = done.file
        ELSE /\ Ran(u, data, "listed", Len(lines), [i \in 1..Len(lines) |-> lines[i].line])
             /\ file' = done.file
     /\ UNCHANGED <<storevars, overview, loop, clock, selectors, views, user_data, sent, nadds>>

\* Texts sent to the Telegram bot.
TelegramTexts == {<<" ", "d", "u", "n", "e">>, <<"2", "0", "2", "1">>, <<"-", "5">>}

\* text_handler: the message text answers the step the user's flow is at.
text_handler(u, message) ==
  LET text == strip(message)
      d == user_data[u]
      n == int(text)
      row == get_request_by_id(View(file), n.n)
  IN /\ IF d.flow = "create" /\ d.step = "title"
          THEN /\ Ran(u, "text_handler", "title", 0, <<>>)
               /\ SetUserData(u, [d EXCEPT !.title = text, !.step = "year"])
               /\ UNCHANGED views
        ELSE IF d.flow = "create" /\ d.step = "year"
          THEN IF ~n.ok
                 THEN Ran(u, "text_handler", "not_a_year", 0, <<>>) /\ UNCHANGED <<user_data, views>>
                 ELSE /\ Ran(u, "text_handler", "year", 0, <<>>)
                      /\ SetUserData(u, [d EXCEPT !.year = n.n, !.step = "category"])
                      /\ UNCHANGED views
        ELSE IF d.flow \in {"admin_change_status_wait_id", "admin_delete_wait_id"}
          THEN IF ~is_admin_telegram(u)
                 THEN /\ Ran(u, "text_handler", "denied", 0, <<>>)
                      /\ SetUserData(u, [d EXCEPT !.flow = "none"])
                      /\ UNCHANGED views
               ELSE IF ~n.ok
                 THEN Ran(u, "text_handler", "not_a_number", 0, <<>>) /\ UNCHANGED <<user_data, views>>
               ELSE /\ Ran(u, "text_handler", "buttons", n.n, row)
                    /\ views' = views \cup
                         {ViewOf(IF d.flow = "admin_change_status_wait_id"
                                   THEN "status_buttons" ELSE "confirm_buttons", n.n, row)}
                    /\ SetUserData(u, [d EXCEPT !.flow = "none"])
        ELSE Ran(u, "text_handler", "menu", 0, <<>>) /\ UNCHANGED <<user_data, views>>
     /\ UNCHANGED <<file, storevars, overview, loop, clock, selectors, sent, nadds>>

\* ---- Discord views end 60 seconds after their last interaction
on_timeout_selector(s) ==
  /\ alive
  /\ s \in selectors
  /\ selectors' = selectors \ {s}
  /\ UNCHANGED <<file, storevars, overview, loop, clock, views, user_data, sent, run, nadds>>

on_timeout_view(v) ==
  /\ alive
  /\ v \in views
  /\ v.kind = "StatusSelectView"
  /\ views' = views \ {v}
  /\ UNCHANGED <<file, storevars, overview, loop, clock, selectors, user_data, sent, run, nadds>>

\* ---- time
\* The UTC day ends.
Tick ==
  /\ clock = Day1
  /\ clock' = Day2
  /\ nadds' = [u \in DiscordUsers |-> 0]
  /\ UNCHANGED <<file, storevars, overview, loop, selectors, views, user_data, sent, run>>

\* ---- submissions: the two creation flows, one handler run per step
\* "43" (unlimited) opens the Discord modal, "77" creates through Telegram.
NextSubmit ==
  \/ \E resp \in {TmdbResponse, <<>>} : NewRequestModal_on_submit("43", resp)
  \/ \E s \in selectors, u \in DiscordUsers :
       \E idx \in 1..Len(s.results) : RequestChoiceSelect_callback(s, u, idx)
  \/ \E u \in TelegramUsers : callback_new_request(u)
  \/ \E u \in TelegramUsers, message \in TelegramTexts : text_handler(u, message)
  \/ \E u \in TelegramUsers, category \in {"film"} : callback_category(u, category)
  \/ \E s \in selectors : on_timeout_selector(s)

SpecSubmit == Init /\ [][NextSubmit]_vars

\* ---- the daily limit: "42" submits, the admin deletes, the day ends
NextLimit ==
  \/ \E resp \in {TmdbResponse} : NewRequestModal_on_submit("42", resp)
  \/ \E s \in selectors, u \in DiscordUsers :
       \E idx \in 1..Len(s.results) : RequestChoiceSelect_callback(s, u, idx)
  \/ \E text \in IdTexts : DeleteRequestModal_on_submit(DiscordAdmin, text)
  \/ \E s \in selectors : on_timeout_selector(s)
  \/ Tick

SpecLimit == Init /\ [][NextLimit]_vars

\* ---- the event loop (server.py): handlers are coroutines of one thread
\* The thread of the loop makes the Store calls of every handler.
LoopThread == "p1"

\* Positions where a coroutine is in a Store call, and where it is suspended
\* at an await (query.answer, notif_channel.send, the answer to the user).
CallPositions == {"count", "dup", "add", "get", "update", "delete"}
AwaitPositions == {"answer", "notify", "send", "reply"}

SetLoop(cur, c, co) == loop' = [cur |-> cur, co |-> [loop.co EXCEPT ![c] = co]]

\* The loop is between coroutine segments and c is the first free slot.
CanStart(c) ==
  /\ alive
  /\ loop.cur = "none"
  /\ loop.co[c].at = "idle"
  /\ c = "c2" => loop.co["c1"].at # "idle"

\* The coroutine suspends at an await, about to answer out.
Suspend(c, co, at, out) == SetLoop("none", c, [co EXCEPT !.at = at, !.out = out])

\* The coroutine goes on, in the same segment, to a Store call.
GoOn(c, co, at) == SetLoop(c, c, [co EXCEPT !.at = at, !.k = ncalls])

\* Mutant of check_then_add: an await stands between the check and the call.
check_await_add(c) == "none"

\* RequestChoiceSelect.callback has no await between find_duplicate_request
\* and add_request: the coroutine keeps the loop.
check_then_add(c) == c

\* The Store call a coroutine makes at a call position.
CallOf(co) ==
  CASE co.at \in {"count", "dup", "get"} ->
         MkCall("list_all_requests", NoPayload, "", "", 0, "")
    [] co.at = "add" ->
         MkCall("add_request",
                [user_id |-> co.u, platform |-> IF co.h = "RequestChoiceSelect"
                                                   THEN "discord" ELSE "telegram",
                 title |-> co.title, year |-> co.year, category |-> co.category],
                DEFAULT_STATUS, utc_now_iso(clock), 0, "")
    [] co.at = "update" ->
         MkCall("update_result", NoPayload, "", "", co.id,
                IF co.is_available THEN "dispo" ELSE "non_dispo")
    [] co.at = "delete" ->
         MkCall("delete_request", NoPayload, "", "", co.id, "")

\* The running coroutine enters the Store call it is at.
LoopCall(c) ==
  /\ loop.cur = c
  /\ loop.co[c].at \in CallPositions
  /\ ncalls = loop.co[c].k
  /\ Call(LoopThread, CallOf(loop.co[c]))

\* The Store call of the running coroutine has returned.
Returned(c) ==
  /\ alive
  /\ loop.cur = c
  /\ loop.co[c].at \in CallPositions
  /\ ncalls = loop.co[c].k + 1
  /\ pc[LoopThread] = "idle"

\* RequestChoiceSelect.callback starts: user u picks option idx of selector s.
callback_starts(c, s, u, idx) ==
  LET data == s.results[idx]
      co == [NoCo EXCEPT !.h = "RequestChoiceSelect", !.u = s.requester_id,
                         !.title = data.title, !.year = data.year,
                         !.category = data.category]
  IN /\ CanStart(c)
     /\ s \in selectors
     /\ idx \in 1..Len(s.results)
     /\ IF u # s.requester_id THEN Suspend(c, co, "send", "denied")
        ELSE IF s.requester_id \notin UNLIMITED_USER_IDS THEN GoOn(c, co, "count")
        ELSE GoOn(c, co, "dup")
     /\ UNCHANGED <<file, storevars, overview, clock, selectors, views, user_data, sent, run, nadds>>

\* RequestChoiceSelect.callback after each of its Store calls.
callback_returns(c) ==
  LET co == loop.co[c]
      rows == ret[LoopThread].rows
      existing == find_duplicate_request(rows, co.title, co.year, co.category)
  IN /\ Returned(c)
     /\ co.h = "RequestChoiceSelect"
     /\ CASE co.at = "count" ->
               /\ IF count_user_requests_today(rows, co.u, clock) >= 3
                    THEN Suspend(c, co, "send", "limit")
                    ELSE GoOn(c, co, "dup")
               /\ UNCHANGED nadds
          [] co.at = "dup" ->
               /\ IF existing # <<>>
                    THEN Suspend(c, [co EXCEPT !.row = existing], "send", "duplicate")
                    ELSE SetLoop(check_then_add(c), c, [co EXCEPT !.at = "add", !.k = ncalls])
               /\ UNCHANGED nadds
          [] co.at = "add" ->
               /\ Suspend(c, [co EXCEPT !.id = ret[LoopThread].n], "send", "registered")
               /\ nadds' = [nadds EXCEPT ![co.u] = @ + 1]
     /\ UNCHANGED <<file, storevars, overview, clock, selectors, views, user_data, sent, run>>

\* Telegram handles one update at a time.
TelegramFree == \A c \in Coros : loop.co[c].h # "callback_handler"

\* callback_handler starts with data "category:<category>": await query.answer().
category_starts(c, u, category) ==
  /\ CanStart(c)
  /\ TelegramFree
  /\ Suspend(c, [NoCo EXCEPT !.h = "callback_handler", !.u = u, !.category = category],
             "answer", "")
  /\ UNCHANGED <<file, storevars, overview, clock, selectors, views, user_data, sent, run, nadds>>

\* callback_handler after add_request returned: await reply_text.
category_returns(c) ==
  LET co == loop.co[c]
  IN /\ Returned(c)
     /\ co.h = "callback_handler"
     /\ Suspend(c, [co EXCEPT !.id = ret[LoopThread].n], "reply", "registered")
     /\ UNCHANGED <<file, storevars, overview, clock, selectors, views, user_data, sent, run, nadds>>

\* ResultRequestModal.on_submit starts.
on_submit_starts(c, u, text, is_available, notif) ==
  LET n == int(strip(text))
      co == [NoCo EXCEPT !.h = "ResultRequestModal", !.u = u, !.id = n.n,
                         !.is_available = is_available, !.notif = notif]
  IN /\ CanStart(c)
     /\ IF ~is_admin(u) THEN Suspend(c, co, "send", "denied")
        ELSE IF ~n.ok THEN Suspend(c, co, "send", "not_a_number")
        ELSE GoOn(c, co, "get")
     /\ UNCHANGED <<file, storevars, overview, clock, selectors, views, user_data, sent, run, nadds>>

\* Mutant of check_then_update: an await stands between get_request_by_id
\* and update_result.
check_await_update(c) == "none"

\* ResultRequestModal.on_submit has no await between get_request_by_id and
\* update_result: the coroutine keeps the loop.
check_then_update(c) == c

\* ResultRequestModal.on_submit after each of its Store calls.
on_submit_returns(c) ==
  LET co == loop.co[c]
      row == get_request_by_id(ret[LoopThread].rows, co.id)
  IN /\ Returned(c)
     /\ co.h = "ResultRequestModal"
     /\ CASE co.at = "get" ->
               IF row = <<>> THEN Suspend(c, co, "send", "not_found")
               ELSE SetLoop(check_then_update(c), c,
                            [co EXCEPT !.row = row, !.at = "update", !.k = ncalls])
          [] co.at = "update" ->
               IF ~ret[LoopThread].b THEN Suspend(c, co, "send", "not_updated")
               ELSE IF co.notif \in {"unconfigured", "no_channel"}
                 THEN Suspend(c, co, "send", co.notif)
               ELSE Suspend(c, co, "notify", co.notif)
     /\ UNCHANGED <<file, storevars, overview, clock, selectors, views, user_data, sent, run, nadds>>

\* DeleteRequestModal.on_submit starts.
delete_starts(c, u, text) ==
  LET n == int(strip(text))
      co == [NoCo EXCEPT !.h = "DeleteRequestModal", !.u = u, !.id = n.n]
  IN /\ CanStart(c)
     /\ IF ~is_admin(u) THEN Suspend(c, co, "send", "denied")
        ELSE IF ~n.ok THEN Suspend(c, co, "send", "not_a_number")
        ELSE GoOn(c, co, "delete")
     /\ UNCHANGED <<file, storevars, overview, clock, selectors, views, user_data, sent, run, nadds>>

\* DeleteRequestModal.on_submit after delete_request returned.
delete_returns(c) ==
  LET co == loop.co[c]
  IN /\ Returned(c)
     /\ co.h = "DeleteRequestModal"
     /\ Suspend(c, co, "send", IF ret[LoopThread].b THEN "deleted" ELSE "not_found")
     /\ UNCHANGED <<file, storevars, overview, clock, selectors, views, user_data, sent, run, nadds>>

\* The loop resumes a suspended coroutine: the awaited call is over (or, at a
\* call position, the coroutine gets the loop back).
Resume(c) ==
  LET co == loop.co[c]
      d == user_data[co.u]
  IN /\ alive
     /\ loop.cur = "none"
     /\ pc[LoopThread] = "idle"
     /\ co.at \in CallPositions \cup AwaitPositions
     /\ CASE co.at \in CallPositions ->
               SetLoop(c, c, [co EXCEPT !.k = ncalls]) /\ UNCHANGED <<user_data, sent>>
          [] co.at = "answer" ->
               /\ IF d.flow # "create" \/ d.step # "category"
                    THEN SetLoop("none", c, NoCo)
                    ELSE GoOn(c, [co EXCEPT !.title = d.title, !.year = d.year], "add")
               /\ UNCHANGED <<user_data, sent>>
          [] co.at = "reply" ->
               /\ SetLoop("none", c, NoCo)
               /\ SetUserData(co.u, [NoUserData EXCEPT !.flow = "none"])
               /\ UNCHANGED sent
          [] co.at = "notify" ->
               /\ IF co.notif = "send_raises"
                    THEN SetLoop("none", c, NoCo) /\ UNCHANGED sent
                    ELSE /\ Suspend(c, co, "send", "sent")
                         /\ sent' = sent \cup {Notification(co.row, co.is_available)}
               /\ UNCHANGED user_data
          [] co.at = "send" ->
               SetLoop("none", c, NoCo) /\ UNCHANGED <<user_data, sent>>
     /\ UNCHANGED <<file, storevars, overview, clock, selectors, views, run, nadds>>

\* Texts sent to the Telegram bot while the loop is observed.
LoopTexts == {<<" ", "d", "u", "n", "e">>, <<"2", "0", "2", "1">>}

\* The handlers without a Store call run as one step of the loop.
Prelude == loop.cur = "none" /\ run.n < FewRuns

\* The thread of the loop inside a Store call.
StoreStep ==
  \/ Acquire(LoopThread)
  \/ Load(LoopThread)
  \/ Run(LoopThread)
  \/ Save(LoopThread)
  \/ WriteOpen(LoopThread)
  \/ WriteText(LoopThread)
  \/ Rename(LoopThread)
  \/ Release(LoopThread)

\* Discord and Telegram submissions side by side.
NextLoop ==
  \/ \E resp \in {TmdbResponse} : Prelude /\ NewRequestModal_on_submit("43", resp)
  \/ \E u \in TelegramUsers : Prelude /\ TelegramFree /\ callback_new_request(u)
  \/ \E u \in TelegramUsers, message \in LoopTexts :
       Prelude /\ TelegramFree /\ text_handler(u, message)
  \/ \E c \in Coros, s \in selectors, u \in DiscordUsers :
       \E idx \in {1} : callback_starts(c, s, u, idx)
  \/ \E c \in Coros : callback_returns(c)
  \/ \E c \in Coros, u \in TelegramUsers, category \in {"film"} : category_starts(c, u, category)
  \/ \E c \in Coros : category_returns(c)
  \/ \E c \in Coros : Resume(c)
  \/ \E c \in Coros : LoopCall(c)
  \/ StoreStep

SpecLoop == Init /\ [][NextLoop]_vars

\* A Discord submission and the admin's result action side by side.
NextNotify ==
  \/ \E resp \in {TmdbResponse} : Prelude /\ NewRequestModal_on_submit("43", resp)
  \/ \E c \in Coros, s \in selectors, u \in DiscordUsers :
       \E idx \in 1..Len(s.results) : callback_starts(c, s, u, idx)
  \/ \E c \in Coros : callback_returns(c)
  \/ \E c \in Coros, u \in {DiscordAdmin, "42"}, text \in {<<"1">>}, notif \in NotifOutcomes :
       on_submit_starts(c, u, text, TRUE, notif)
  \/ \E c \in Coros : on_submit_returns(c)
  \/ \E c \in Coros : Resume(c)
  \/ \E c \in Coros : LoopCall(c)
  \/ StoreStep

SpecNotify == Init /\ [][NextNotify]_vars

\* ---- the admin flows, one handler run per step, on a store with requests
\* add_request as the adapters call it.
Submitted(u, platform, title, year, category, t) ==
  MkCall("add_request",
         [user_id |-> u, platform |-> platform, title |-> title, year |-> year,
          category |-> category],
         DEFAULT_STATUS, utc_now_iso(t), 0, "")

\* The store after three submissions made before the adapters were started.
Populated ==
  LET f1 == Store(Absent, Submitted("42", "discord", <<"D", "u", "n", "e">>, 2021, "film", Day1)).file
      f2 == Store(f1, Submitted("77", "telegram", <<"d", "u", "n", "e">>, 1984, "film", Day1)).file
  IN Store(f2, Submitted("43", "discord", <<"D", "U", "N", "E">>, 0, "serie", Day1)).file

InitAdmin ==
  /\ file = Populated
  /\ tmp = Absent
  /\ lock = "free"
  /\ pc = [p \in Procs |-> "idle"]
  /\ call = [p \in Procs |-> NoCall]
  /\ items = [p \in Procs |-> <<>>]
  /\ wdata = [p \in Procs |-> Absent]
  /\ wret = [p \in Procs |-> ""]
  /\ ret = [p \in Procs |-> RetNone]
  /\ alive = TRUE
  /\ ncalls = 0
  /\ made = [p \in Procs |-> NoneMade]
  /\ BotInit

\* The admins identify request 2 for a status change or a deletion, delete
\* request 1 and give results for request 1.
NextAdmin ==
  \/ \E u \in {DiscordAdmin, "42"}, text \in {<<" ", "2">>} :
       Few /\ ChangeStatusModal_on_submit(u, text)
  \/ \E v \in views, u \in {DiscordAdmin}, st \in DiscordStatusChoices :
       Few /\ StatusSelect_callback(v, u, st)
  \/ \E u \in {DiscordAdmin}, text \in {<<"1">>} : Few /\ DeleteRequestModal_on_submit(u, text)
  \/ \E u \in {DiscordAdmin}, text \in IdTexts, a \in BOOLEAN, notif \in NotifOutcomes :
       Few /\ ResultRequestModal_on_submit(u, text, a, notif)
  \/ \E u \in {TelegramAdmin}, data \in {"admin_change_status", "admin_delete"} :
       Few /\ callback_admin(u, data)
  \/ \E u \in {TelegramAdmin}, message \in {<<" ", "2">>} : Few /\ text_handler(u, message)
  \/ \E v \in views, u \in {TelegramAdmin}, st \in {"traitee"} :
       Few /\ callback_status(v, u, st)
  \/ \E v \in views, u \in {TelegramAdmin}, choice \in {"yes", "no"} :
       Few /\ callback_confirm_delete(v, u, choice)
  \/ \E v \in views : on_timeout_view(v)

SpecAdmin == InitAdmin /\ [][NextAdmin]_vars

\* ---- status changes on an empty store: "43" submits, the admins of both
\* chats change the status of request 1
NextStatus ==
  \/ \E resp \in {TmdbResponse} : NewRequestModal_on_submit("43", resp)
  \/ \E s \in selectors, u \in {"43"} :
       \E idx \in 1..Len(s.results) : RequestChoiceSelect_callback(s, u, idx)
  \/ \E u \in {DiscordAdmin}, text \in {<<"1">>} : ChangeStatusModal_on_submit(u, text)
  \/ \E v \in views, u \in {DiscordAdmin}, st \in DiscordStatusChoices \cup {"pas_encore_sorti"} :
       StatusSelect_callback(v, u, st)
  \/ \E u \in {TelegramAdmin}, data \in {"admin_change_status"} : callback_admin(u, data)
  \/ \E u \in {TelegramAdmin}, message \in {<<"1">>} : text_handler(u, message)
  \/ \E v \in views, u \in {TelegramAdmin}, st \in {"en_cours", "traitee"} :
       callback_status(v, u, st)

SpecStatus == Init /\ [][NextStatus]_vars

\* ---- the Telegram creation flow, the confirmation sent or not
NextFlow ==
  \/ \E u \in TelegramUsers : callback_new_request(u)
  \/ \E u \in TelegramUsers, message \in TelegramTexts : text_handler(u, message)
  \/ \E u \in TelegramUsers, category \in {"film"}, replied \in BOOLEAN :
       category_callback(u, category, replied)

SpecFlow == Init /\ [][NextFlow]_vars

\* ---- the admin's result action on a store with requests, side by side with
\* a deletion and a Telegram submission
NextResult ==
  \/ \E u \in TelegramUsers : Prelude /\ TelegramFree /\ callback_new_request(u)
  \/ \E u \in TelegramUsers, message \in LoopTexts :
       Prelude /\ TelegramFree /\ text_handler(u, message)
  \/ \E c \in Coros, u \in TelegramUsers, category \in {"film"} : category_starts(c, u, category)
  \/ \E c \in Coros : category_returns(c)
  \/ \E c \in Coros, u \in {DiscordAdmin}, text \in {<<"3">>}, notif \in {"sent"} :
       on_submit_starts(c, u, text, TRUE, notif)
  \/ \E c \in Coros : on_submit_returns(c)
  \/ \E c \in Coros, u \in {DiscordAdmin}, text \in {<<"3">>} : delete_starts(c, u, text)
  \/ \E c \in Coros : delete_returns(c)
  \/ \E c \in Coros : Resume(c)
  \/ \E c \in Coros : LoopCall(c)
  \/ StoreStep

SpecResult == InitAdmin /\ [][NextResult]_vars

\* ---- the Telegram listings, after requests were made through Telegram
NextList ==
  \/ \E u \in TelegramUsers : callback_new_request(u)
  \/ \E u \in TelegramUsers, message \in LoopTexts : text_handler(u, message)
  \/ \E u \in TelegramUsers, category \in {"film", "serie"} : callback_category(u, category)
  \/ \E u \in TelegramPeople, data \in {"list_open", "admin_all"} : callback_list(u, data)

SpecList == Init /\ [][NextList]_vars

\* ---- admins and other users press the same buttons, on a store with requests
NextGuard ==
  \/ \E u \in DiscordPeople, text \in {<<"1">>} : Few /\ ChangeStatusModal_on_submit(u, text)
  \/ \E v \in views, u \in DiscordPeople, st \in {"pas_encore_sorti"} :
       Few /\ StatusSelect_callback(v, u, st)
  \/ \E u \in DiscordPeople, text \in {<<"1">>} : Few /\ DeleteRequestModal_on_submit(u, text)
  \/ \E u \in DiscordPeople, text \in {<<"1">>}, notif \in {"unconfigured"} :
       Few /\ ResultRequestModal_on_submit(u, text, TRUE, notif)
  \/ \E u \in TelegramPeople, data \in {"admin_change_status", "admin_delete"} :
       Few /\ callback_admin(u, data)
  \/ \E u \in TelegramPeople, message \in {<<"1">>} : Few /\ text_handler(u, message)
  \/ \E v \in views, u \in TelegramPeople, st \in {"file_attente"} :
       Few /\ callback_status(v, u, st)
  \/ \E v \in views, u \in TelegramPeople, choice \in {"yes"} :
       Few /\ callback_confirm_delete(v, u, choice)

SpecGuard == InitAdmin /\ [][NextGuard]_vars

\* ---- the overview message of the list channel
\* build_list_overview_embed reads the store and changes nothing; the
\* overview steps leave it out. The list channel, when configured, is in the
\* bot's cache (bot.get_channel returns it).
Acted(by, what, id) == [by |-> by, what |-> what, id |-> id]

\* The overview message id of channel ch exists.
Exists(id, ch) == [id |-> id, channel |-> ch] \in overview.messages

\* is_in_allowed_channel(channel, allowed_id), on channel ids.
is_in_allowed_channel(ch, allowed_id) == allowed_id = 0 \/ ch = allowed_id

OverviewOnly ==
  UNCHANGED <<file, storevars, clock, selectors, views, user_data, sent, run, nadds, loop>>

\* update_list_overview, one turn of tasks.loop, up to its first await.
update_list_overview_starts ==
  /\ alive
  /\ overview.task.at = "idle"
  /\ overview' =
       IF overview.REQUEST_LIST_CHANNEL_ID = 0 \/ overview.LIST_OVERVIEW_MESSAGE_ID = 0
         THEN [overview EXCEPT !.did = Acted("refresh", "nothing", 0)]
         ELSE [overview EXCEPT
                 !.task = [at |-> "fetch", id |-> overview.LIST_OVERVIEW_MESSAGE_ID,
                           channel |-> overview.REQUEST_LIST_CHANNEL_ID],
                 !.did = Acted("refresh", "fetch", overview.LIST_OVERVIEW_MESSAGE_ID)]
  /\ OverviewOnly

\* update_list_overview goes on after channel.fetch_message or message.edit.
update_list_overview_resumes ==
  LET t == overview.task
  IN /\ alive
     /\ t.at \in {"fetch", "edit"}
     /\ overview' =
          CASE t.at = "fetch" /\ Exists(t.id, t.channel) ->
                 [overview EXCEPT !.task.at = "edit", !.did = Acted("refresh", "found", t.id)]
            [] t.at = "fetch" /\ ~Exists(t.id, t.channel) ->
                 [overview EXCEPT !.LIST_OVERVIEW_MESSAGE_ID = 0, !.task = NoTask,
                                  !.did = Acted("refresh", "reset", t.id)]
            [] t.at = "edit" /\ Exists(t.id, t.channel) ->
                 [overview EXCEPT !.task = NoTask, !.did = Acted("refresh", "edit", t.id)]
            [] t.at = "edit" /\ ~Exists(t.id, t.channel) ->
                 [overview EXCEPT !.task = NoTask, !.did = Acted("refresh", "edit_failed", t.id)]
     /\ OverviewOnly

\* The commands in flight.
InFlight == {k \in Commands : overview.command[k].at # "idle"}

\* !panel_list typed in channel ch, up to its first await.
panel_list_starts(k, ch) ==
  /\ alive
  /\ overview.command[k].at = "idle"
  /\ k = "k2" => overview.command["k1"].at # "idle"
  /\ overview.n + Cardinality(InFlight) < MaxMessages
  /\ overview' =
       IF ~is_in_allowed_channel(ch, overview.REQUEST_LIST_CHANNEL_ID)
         THEN [overview EXCEPT !.did = Acted("panel_list", "denied", 0)]
         ELSE [overview EXCEPT !.command[k] = [at |-> "panel", id |-> 0, channel |-> ch],
                               !.did = Acted("panel_list", "panel", 0)]
  /\ OverviewOnly

\* !panel_list goes on after one of its awaits: ctx.send of the panel,
\* ctx.channel.fetch_message, msg.edit, ctx.send of the overview.
panel_list_resumes(k) ==
  LET t == overview.command[k]
      tracked == overview.LIST_OVERVIEW_MESSAGE_ID
      id == overview.n + 1
  IN /\ alive
     /\ t.at \in {"panel", "fetch", "edit", "send"}
     /\ overview' =
          CASE t.at = "panel" /\ tracked # 0 ->
                 [overview EXCEPT !.command[k].at = "fetch", !.command[k].id = tracked,
                                  !.did = Acted("panel_list", "fetch", tracked)]
            [] t.at = "panel" /\ tracked = 0 ->
                 [overview EXCEPT !.command[k].at = "send",
                                  !.did = Acted("panel_list", "untracked", 0)]
            [] t.at = "fetch" /\ Exists(t.id, t.channel) ->
                 [overview EXCEPT !.command[k].at = "edit",
                                  !.did = Acted("panel_list", "found", t.id)]
            [] t.at = "edit" /\ Exists(t.id, t.channel) ->
                 [overview EXCEPT !.command[k] = NoTask,
                                  !.did = Acted("panel_list", "edit", t.id)]
            [] t.at \in {"fetch", "edit"} /\ ~Exists(t.id, t.channel) ->
                 [overview EXCEPT !.LIST_OVERVIEW_MESSAGE_ID = 0,
                                  !.command[k].at = "send",
                                  !.did = Acted("panel_list", "reset", t.id)]
            [] t.at = "send" ->
                 [overview EXCEPT
                    !.messages = @ \cup {[id |-> id, channel |-> t.channel]},
                    !.n = id,
                    !.LIST_OVERVIEW_MESSAGE_ID = id,
                    !.command[k] = NoTask,
                    !.did = Acted("panel_list", "post", id)]
     /\ OverviewOnly

\* A member of the server deletes an overview message.
delete_message(m) ==
  /\ alive
  /\ m \in overview.messages
  /\ overview' = [overview EXCEPT !.messages = @ \ {m}, !.did = Acted("member", "delete", m.id)]
  /\ OverviewOnly

\* The list channel is configured or not.
InitOverview ==
  /\ StoreInit
  /\ ChatInit
  /\ \E list_channel_id \in {0, ListChannel} : overview = NoOverview(list_channel_id)

NextOverview ==
  \/ update_list_overview_starts
  \/ update_list_overview_resumes
  \/ \E k \in Commands, ch \in Channels : panel_list_starts(k, ch)
  \/ \E k \in Commands : panel_list_resumes(k)
  \/ \E m \in overview.messages : delete_message(m)

SpecOverview == InitOverview /\ [][NextOverview]_vars

\* ================================================================ claims
\* Fields of a row tuple.
RowId(r) == r[1]
RowStatus(r) == r[7]
RowResult(r) == r[9]

\* The step of Spec in which the caller's call c ran.
Did(c) == call'[Caller] = c /\ ncalls' = ncalls + 1

\* The last call of the caller (Spec).
Last == call[Caller]

\* C1. Id density: after every operation the ids on disk and the ids
\* list_all_requests returns are exactly 1..N, each once, in ascending order.
C1_IdDensity ==
  /\ \A i \in 1..Len(file.requests) : file.requests[i].id = i
  /\ \A i \in 1..Len(View(file)) : RowId(View(file)[i]) = i
  /\ Last.op = "list_all_requests" =>
       /\ ret[Caller].rows = View(file)
       /\ \A i \in 1..Len(ret[Caller].rows) : RowId(ret[Caller].rows[i]) = i

\* Three records were created, one was deleted and the two left were listed
\* or the store was changed again.
C1_Witness ==
  /\ Last.op = "delete_request"
  /\ Last.request_id = 1
  /\ ret[Caller] = RetBool(TRUE)
  /\ Len(file.requests) = 2

\* C2. delete_request(k) with 1 <= k <= N returns true and leaves N-1 records:
\* those that had id < k unchanged, those that had id > k with id one less and
\* every other field unchanged, in the same order.
C2_DeleteShifts ==
  [][\A c \in DeleteCalls :
       (Did(c) /\ c.request_id \in 1..Len(View(file))) =>
         /\ ret'[Caller] = RetBool(TRUE)
         /\ Len(View(file')) = Len(View(file)) - 1
         /\ \A i \in 1..Len(View(file')) :
              View(file')[i] =
                IF i < c.request_id THEN View(file)[i]
                ELSE [View(file)[i + 1] EXCEPT ![1] = @ - 1]]_vars

\* Record 2 of three was deleted.
C2_Witness ==
  /\ Last.op = "delete_request"
  /\ Last.request_id = 2
  /\ ret[Caller] = RetBool(TRUE)
  /\ Len(View(file)) = 2
  /\ View(file)[1] # View(file)[2]

\* C6 (as claimed). add_request on N records returns N+1; afterwards the first
\* N rows are unchanged and the last row has id N+1, the supplied fields,
\* status file_attente when no status is passed, and result "".
C6_AddAppends ==
  [][\A c \in AddCalls :
       Did(c) =>
         LET old == View(file)
             new == View(file')
             n == Len(old)
         IN /\ ret'[Caller] = RetInt(n + 1)
            /\ Len(new) = n + 1
            /\ \A i \in 1..n : new[i] = old[i]
            /\ RowId(new[n + 1]) = n + 1
            /\ new[n + 1][2] = c.payload.user_id
            /\ new[n + 1][3] = c.payload.platform
            /\ new[n + 1][4] = c.payload.title
            /\ new[n + 1][5] = c.payload.year
            /\ new[n + 1][6] = c.payload.category
            /\ c.status = DEFAULT_STATUS => RowStatus(new[n + 1]) = "file_attente"
            /\ RowResult(new[n + 1]) = ""]_vars

\* C7 (as claimed). update_status(id, s) on an existing id, for any s, returns
\* true and afterwards that row has status s, everything else unchanged.
C7_StatusOnly ==
  [][\A c \in StatusCalls :
       (Did(c) /\ c.request_id \in 1..Len(View(file))) =>
         /\ ret'[Caller] = RetBool(TRUE)
         /\ View(file') = [View(file) EXCEPT ![c.request_id][7] = c.status]]_vars

\* C8. update_result with a code outside the enum returns false and leaves the
\* backing file as it was, whether or not the id exists.
C8_ResultClosure ==
  [][\A c \in ResultCalls :
       (Did(c) /\ c.result_code \notin {"", "dispo", "non_dispo"}) =>
         /\ ret'[Caller] = RetBool(FALSE)
         /\ file' = file]_vars

\* A bad code was given for a record that exists.
C8_Witness ==
  /\ Last.op = "update_result"
  /\ Last.result_code = "peut-etre"
  /\ Last.request_id = 1
  /\ Len(file.requests) >= 1
  /\ ret[Caller] = RetBool(FALSE)

\* C9. update_status, update_result and delete_request on an id outside 1..N
\* return false and leave the collection as it was.
C9_NotFound ==
  [][\A c \in StatusCalls \cup ResultCalls \cup DeleteCalls :
       (Did(c) /\ c.request_id \notin 1..Len(View(file))) =>
         /\ ret'[Caller] = RetBool(FALSE)
         /\ file'.requests = file.requests
         /\ View(file') = View(file)]_vars

\* update_result(99, "dispo") ran on the empty store.
C9_Witness ==
  /\ Last.op = "update_result"
  /\ Last.request_id = 99
  /\ Last.result_code = "dispo"
  /\ ret[Caller] = RetBool(FALSE)
  /\ file = empty_db
  /\ ncalls = 1

\* C10. update_result(id, code) with an existing id and a code of the enum
\* returns true; afterwards that row has result code, and its other fields and
\* the other rows are unchanged.
C10_ResultOnly ==
  [][\A c \in ResultCalls :
       (Did(c) /\ c.result_code \in {"", "dispo", "non_dispo"}
               /\ c.request_id \in 1..Len(View(file))) =>
         /\ ret'[Caller] = RetBool(TRUE)
         /\ View(file') = [View(file) EXCEPT ![c.request_id][9] = c.result_code]]_vars

\* A result was cleared on a record whose status was set by a legacy value.
C10_Witness ==
  /\ Last.op = "update_result"
  /\ Last.request_id = 1
  /\ Last.result_code = ""
  /\ ret[Caller] = RetBool(TRUE)
  /\ Len(View(file)) >= 1
  /\ RowStatus(View(file)[1]) = "en_cours"
  /\ RowResult(View(file)[1]) = ""

\* ------------------------------------------------------ claims on SpecConc
\* C3. Mutual exclusion: at most one caller is inside a with _LOCK block, it
\* is the holder of the lock, and the files change only in a step of the holder.
C3_MutualExclusion ==
  /\ [](\A p \in Procs : InCritical(p) =>
          /\ lock = p
          /\ \A q \in Procs \ {p} : ~InCritical(q))
  /\ [][(file' # file \/ tmp' # tmp) =>
          \E p \in Procs : lock = p /\ InCritical(p) /\ pc'[p] # pc[p]]_vars

\* One caller is writing the file while the other waits for the lock.
C3_Witness ==
  \E p \in Procs : \E q \in Procs \ {p} :
    /\ pc[p] = "w_text"
    /\ call[p].op = "add_request"
    /\ pc[q] = "acquire"
    /\ call[q].op = "delete_request"

\* C4. No lost update: the body of every operation runs on the content the
\* file has at that moment, and what a mutating operation commits is the
\* result of applying it to the content committed just before it; so the
\* commits compose in lock order, and an add returns the count it commits.
C4_NoLostUpdate ==
  [][\A p \in Procs :
       /\ (pc[p] = "body" /\ pc'[p] # "body" /\ alive') =>
            items[p] = load_requests(read_db_data(file))
       /\ (pc[p] = "w_rename" /\ pc'[p] = "release") =>
            LET b == OpBody(load_requests(read_db_data(file)), call[p])
            IN /\ b.save
               /\ file' = save_requests(read_db_data(file), b.items)
               /\ ret[p] = b.ret]_vars

\* Two adds were issued together; the second commits a second record while the
\* first has returned id 1.
C4_Witness ==
  \E p \in Procs : \E q \in Procs \ {p} :
    /\ call[p].op = "add_request" /\ call[q].op = "add_request"
    /\ pc[p] = "idle" /\ ret[p] = RetInt(1)
    /\ pc[q] = "release" /\ ret[q] = RetInt(2)
    /\ Len(file.requests) = 2
    /\ ncalls = 2

\* C5. Atomic replace: the backing file changes only in the rename step, to
\* the complete document that was written to the temporary file; a crash
\* leaves it as it was, and it never holds a partial text.
C5_AtomicReplace ==
  [][/\ file'.kind # "partial"
     /\ file' # file =>
          \E p \in Procs :
            /\ pc[p] = "w_rename"
            /\ wdata[p].kind = "doc"
            /\ file' = wdata[p]
     /\ ~alive' => file' = file]_vars

\* The process crashed while the temporary file was half written: the backing
\* file still holds a record.
C5_Witness ==
  /\ ~alive
  /\ tmp.kind = "partial"
  /\ file.kind = "doc"
  /\ Len(file.requests) = 1


\* ------------------------------------------------------------ C11 .. C20
RowCreatedAt(r) == r[8]

C12_CreatedAtFixed ==
  [][\A c \in Calls :
       Did(c) =>
         LET old == View(file)
             new == View(file')
             k == c.request_id
         IN CASE c.op = "add_request" ->
                   /\ Len(new) = Len(old) + 1
                   /\ \A i \in 1..Len(old) : RowCreatedAt(new[i]) = RowCreatedAt(old[i])
                   /\ RowCreatedAt(new[Len(new)]) = c.now
              [] c.op = "delete_request" /\ k \in 1..Len(old) ->
                   /\ Len(new) = Len(old) - 1
                   /\ \A i \in 1..Len(new) :
                        RowCreatedAt(new[i]) = RowCreatedAt(old[IF i < k THEN i ELSE i + 1])
              [] OTHER ->
                   /\ Len(new) = Len(old)
                   /\ \A i \in 1..Len(new) : RowCreatedAt(new[i]) = RowCreatedAt(old[i])]_vars

\* Two records created at different times; the first was deleted and the one
\* left, now id 1, still carries its own time.
C12_Witness ==
  /\ Last.op = "delete_request"
  /\ Last.request_id = 1
  /\ ret[Caller] = RetBool(TRUE)
  /\ Len(View(file)) = 1
  /\ RowCreatedAt(View(file)[1]) = "2026-01-02 09:30:00"


\* The JSON objects stored in the file, in file order.
Stored(f) == SelectSeq(f.requests, LAMBDA r : "nondict" \notin DOMAIN r)

\* The id a stored object carries, 0 when it has none.
StoredId(d) == IF "id" \in DOMAIN d THEN d.id ELSE 0

\* The position at which list_all_requests is to return the i-th stored
\* object: after those of smaller id and those of equal id stored before it.
Rank(ds, i) ==
  1 + Cardinality({j \in 1..Len(ds) :
                     \/ StoredId(ds[j]) < StoredId(ds[i])
                     \/ StoredId(ds[j]) = StoredId(ds[i]) /\ j < i})

\* Stored object i has a result outside the enum.
BadResult(ds, i) == "result" \in DOMAIN ds[i] /\ ds[i].result \notin {"", "dispo", "non_dispo"}

\* C13 (as claimed). Every row list_all_requests returns has its result in
\* {"", "dispo", "non_dispo"}, and a stored result outside that set is read
\* back as "".
C13_ResultCoerced ==
  /\ \A i \in 1..Len(View(file)) : RowResult(View(file)[i]) \in {"", "dispo", "non_dispo"}
  /\ Last.op = "list_all_requests" =>
       /\ ret[Caller].rows = View(file)
       /\ \A i \in 1..Len(Stored(file)) :
            BadResult(Stored(file), i) =>
              RowResult(ret[Caller].rows[Rank(Stored(file), i)]) = ""

\* C13 (amended). Every row list_all_requests returns has its result in
\* {"", "dispo", "non_dispo"}; a stored result outside that set is read back
\* as "", except under the stored status ajout_dispo, where it is read back
\* as "dispo".
C13_ResultClosedOnLoad ==
  /\ \A i \in 1..Len(View(file)) : RowResult(View(file)[i]) \in {"", "dispo", "non_dispo"}
  /\ Last.op = "list_all_requests" =>
       /\ ret[Caller].rows = View(file)
       /\ \A i \in 1..Len(Stored(file)) :
            BadResult(Stored(file), i) =>
              RowResult(ret[Caller].rows[Rank(Stored(file), i)]) =
                IF Get(Stored(file)[i], "status", "") = "ajout_dispo" THEN "dispo" ELSE ""

\* The file holds the result "oui" under pas_encore_sorti and was listed:
\* the row of that record has the result "".
C13_Witness ==
  /\ Last.op = "list_all_requests"
  /\ \E i \in 1..Len(Stored(file)) :
       /\ BadResult(Stored(file), i)
       /\ Stored(file)[i].status = "pas_encore_sorti"
       /\ RowResult(ret[Caller].rows[Rank(Stored(file), i)]) = ""


\* C14. Legacy normalization on load: a stored record with status ajout_dispo
\* and an empty (or no) result is listed as en_cours with result dispo; a
\* stored traitee is listed as en_cours with its valid result unchanged, ""
\* when it has none; every other stored status is listed unchanged.
C14_LegacyNormalized ==
  LET ds == Stored(file)
  IN /\ Len(View(file)) = Len(ds)
     /\ Last.op = "list_all_requests" => ret[Caller].rows = View(file)
     /\ \A i \in 1..Len(ds) :
          LET r == View(file)[Rank(ds, i)]
              res == IF "result" \in DOMAIN ds[i] THEN ds[i].result ELSE ""
          IN "status" \in DOMAIN ds[i] =>
               /\ (ds[i].status = "ajout_dispo" /\ res = "") =>
                    (RowStatus(r) = "en_cours" /\ RowResult(r) = "dispo")
               /\ (ds[i].status = "traitee" /\ res \in {"", "dispo", "non_dispo"}) =>
                    (RowStatus(r) = "en_cours" /\ RowResult(r) = res)
               /\ ds[i].status \notin {"ajout_dispo", "traitee"} =>
                    RowStatus(r) = ds[i].status

\* The version-1 file was listed: its traitee record without result is row 3,
\* en_cours with result "", and its ajout_dispo record is row 2, en_cours
\* with result dispo.
C14_Witness ==
  /\ Last.op = "list_all_requests"
  /\ Len(Stored(file)) = 3
  /\ Stored(file)[1].status = "traitee" /\ "result" \notin DOMAIN Stored(file)[1]
  /\ Stored(file)[2].status = "ajout_dispo" /\ Stored(file)[2].result = ""
  /\ RowStatus(ret[Caller].rows[3]) = "en_cours" /\ RowResult(ret[Caller].rows[3]) = ""
  /\ RowStatus(ret[Caller].rows[2]) = "en_cours" /\ RowResult(ret[Caller].rows[2]) = "dispo"


\* C15 (as claimed). Round trip: whenever an operation saves the collection
\* it holds in memory (any status string, result in the enum, ids 1..N),
\* loading the file written yields the same items, field for field and in
\* the same order.
C15_RoundTrip ==
  [][\A c \in Calls :
       (Did(c) /\ (c.op = "update_result" => c.result_code \in {"", "dispo", "non_dispo"})) =>
         LET b == OpBody(load_requests(read_db_data(read_db_file(file))), c)
         IN b.save =>
              /\ \A i \in 1..Len(b.items) :
                   b.items[i].id = i /\ b.items[i].result \in {"", "dispo", "non_dispo"}
              /\ file' = save_requests(read_db_data(read_db_file(file)), b.items)
              /\ load_requests(read_db_data(file')) = b.items]_vars


\* C16. Self-healing load: whatever ids the stored records carry (gaps,
\* duplicates, none, out of file order), list_all_requests returns one row per
\* stored record with ids exactly 1..N; the rows are in ascending order of
\* the stored ids, records of equal stored id in file order; the other
\* fields of each row are those loaded from its record.
C16_SelfHealingLoad ==
  LET ds == Stored(file)
      v == View(file)
  IN /\ Len(v) = Len(ds)
     /\ \A i \in 1..Len(v) : RowId(v[i]) = i
     /\ \A i \in 1..Len(ds) :
          v[Rank(ds, i)] = Row([from_dict(ds[i]) EXCEPT !.id = Rank(ds, i)])
     /\ Last.op = "list_all_requests" => ret[Caller].rows = v

\* The version-1 file, with stored ids 5, 2 and none in that order, was
\* listed: the record without id is row 1, the one stored second is row 2 and
\* the one stored first is row 3.
C16_Witness ==
  /\ Last.op = "list_all_requests"
  /\ Len(Stored(file)) = 3
  /\ StoredId(Stored(file)[1]) = 5 /\ StoredId(Stored(file)[2]) = 2
  /\ "id" \notin DOMAIN Stored(file)[3]
  /\ Len(ret[Caller].rows) = 3
  /\ \A i \in 1..3 : RowId(ret[Caller].rows[i]) = i
  /\ ret[Caller].rows[1][4] = "Alien"
  /\ ret[Caller].rows[2][4] = " dune"
  /\ ret[Caller].rows[3][4] = "Dune"


\* C17. An operation that commits no change leaves an existing backing file
\* as it is, legacy values and unparseable text included: init_db,
\* list_all_requests, list_open_requests, and every update_status,
\* update_result or delete_request that returns false. On an unparseable file
\* the list operations return no row and the other three return false.
C17_NoRewrite ==
  [][\A c \in LoadCalls :
       (Did(c) /\ file.kind # "absent") =>
         /\ (\/ c.op \in {"init_db", "list_all_requests", "list_open_requests"}
             \/ /\ c.op \in {"update_status", "update_result", "delete_request"}
                /\ ret'[Caller] = RetBool(FALSE)) =>
              file' = file
         /\ file.kind = "corrupt" =>
              /\ c.op \in {"list_all_requests", "list_open_requests"} =>
                   ret'[Caller] = RetRows(<<>>)
              /\ c.op \in {"update_status", "update_result", "delete_request"} =>
                   ret'[Caller] = RetBool(FALSE)]_vars

\* Three calls or more ran on the unparseable file, the last one a delete
\* that returned false, and the file is still the unparseable text.
C17_Witness ==
  /\ file = Corrupt
  /\ ncalls >= 3
  /\ Last.op = "delete_request"
  /\ ret[Caller] = RetBool(FALSE)


\* C18 (as claimed). The first write after a load that found the file
\* unparseable replaces it with a fresh empty structure: the version tag and
\* an empty record list.
C18_FreshEmpty ==
  [][\A c \in LoadCalls :
       (Did(c) /\ file.kind = "corrupt" /\ file' # file) => file' = empty_db]_vars

\* C18 (amended). On an unparseable file only add_request writes; it returns
\* 1 and replaces the file with a fresh structure: the version tag 2 and a
\* record list holding the new record alone, with id 1. Nothing of the old
\* text is kept.
C18_FreshWithNewRecord ==
  [][\A c \in LoadCalls :
       (Did(c) /\ file.kind = "corrupt") =>
         /\ file' # file <=> c.op = "add_request"
         /\ c.op = "add_request" =>
              /\ ret'[Caller] = RetInt(1)
              /\ file'.kind = "doc"
              /\ file'.version = 2
              /\ file'.requests =
                   <<[id |-> 1, user_id |-> c.payload.user_id,
                      platform |-> c.payload.platform, title |-> c.payload.title,
                      year |-> c.payload.year, category |-> c.payload.category,
                      status |-> c.status, created_at |-> c.now, result |-> ""]>>]_vars

\* An add returned 1 as a later call: the store it loaded was the unparseable
\* file, the only one of OldFiles that loads as empty, and the file now holds
\* that record alone.
C18_Witness ==
  /\ Last.op = "add_request"
  /\ ret[Caller] = RetInt(1)
  /\ ncalls >= 2
  /\ file.kind = "doc"
  /\ Len(file.requests) = 1
  /\ file.requests[1].title = " dune"


\* C19 (as claimed). An I/O error while the backing file is read or written
\* ends the operation with an exception, not a value, and leaves the backing
\* file as it was.
C19_FaultsRaise ==
  [][\A p \in Procs :
       (StatRaises(p) \/ ReadFails(p) \/ WriteRaises(p)) =>
         /\ pc'[p] = "idle"
         /\ ret'[p] = RetRaise
         /\ file' = file]_vars


\* The step in which caller p's list_all_requests builds the rows it returns.
Lists(p) == pc[p] = "body" /\ pc'[p] = "release" /\ call[p].op = "list_all_requests"

\* Row r is the row made, but for the status and the result, which updates
\* of any caller may have set since.
SameRecord(r, m) == \A j \in {1, 2, 3, 4, 5, 6, 8} : r[j] = m[j]

Saved(c) ==
  /\ Did(c)
  /\ \/ c.op = "add_request"
     \/ c.op \in {"update_status", "update_result", "delete_request"}
          /\ ret'[Caller] = RetBool(TRUE)

\* The nine fields of a stored record.
ModelFields ==
  {"id", "user_id", "platform", "title", "year", "category", "status", "created_at", "result"}

\* C25. Every save writes a document whose meta is an object with version 2,
\* whatever the file held before: no meta, a meta that is not an object,
\* version 1, or a text that cannot be parsed.
C25_VersionOnSave ==
  [][\A c \in LoadCalls :
       Saved(c) =>
         /\ file'.kind = "doc"
         /\ file'.meta = "object"
         /\ file'.version = 2]_vars

\* The file whose meta was not an object has been saved by its first call, an
\* update_status: its meta is now an object with version 2.
C25_Witness ==
  /\ Last.op = "update_status"
  /\ ret[Caller] = RetBool(TRUE)
  /\ ncalls = 1
  /\ file.top = {<<"exported", "2025-12-06">>}
  /\ file.meta = "object"
  /\ file.version = 2

\* C26. A mutating operation on a parsed backing file keeps the members of
\* the document other than "requests" and "meta", and, when meta is an object,
\* its keys other than "version"; each record it saves has the nine model
\* fields and no other.
C26_ContainerKept ==
  [][\A c \in LoadCalls :
       (Saved(c) /\ file.kind = "doc") =>
         /\ file'.top = file.top
         /\ file.meta = "object" => file'.keys = file.keys
         /\ \A i \in 1..Len(file'.requests) : DOMAIN file'.requests[i] = ModelFields]_vars

\* The version-1 file, whose third record had only "title" and "note", has
\* been saved by update_status: "exported" and the meta key "owner" are
\* there, "note" is gone.
C26_Witness ==
  /\ Last.op = "update_status"
  /\ ret[Caller] = RetBool(TRUE)
  /\ file.top = {<<"exported", "2025-12-01">>}
  /\ file.keys = {<<"owner", "infinity">>}
  /\ Len(file.requests) = 3
  /\ \A i \in 1..3 : "note" \notin DOMAIN file.requests[i]
  /\ file.requests[1].title = "Alien"


\* C22. init_db is idempotent: on an absent file it creates the empty store,
\* version 2 and no record; on a file that is there it changes nothing,
\* however many times and after whatever operations it is called.
C22_InitIdempotent ==
  [][\A c \in InitCalls :
       Did(c) =>
         /\ ret'[Caller] = RetNone
         /\ file.kind = "absent" =>
              (file'.kind = "doc" /\ file'.version = 2 /\ file'.requests = <<>>)
         /\ file.kind # "absent" => file' = file]_vars

\* init_db was called as the fourth call, on a store holding records.
C22_Witness ==
  /\ Last.op = "init_db"
  /\ ncalls = 4
  /\ Len(file.requests) >= 2

\* Titles, years and categories a second attempt is made with.
DupTitles ==
  {<<"D", "u", "n", "e">>, <<" ", "d", "u", "n", "e", " ">>, <<"D", "U", "N", "E">>,
   <<"2", "0", "2", "1">>}

DupYears == {2021, 1984, 0, -5}

DupCategories == {"film", "serie"}

\* Positions of the rows that are the same request as (title, year, category):
\* same title up to surrounding whitespace and case, same year and category.
SameRequest(rows, title, year, category) ==
  {i \in DOMAIN rows :
     /\ lower(strip(rows[i][4])) = lower(strip(title))
     /\ rows[i][5] = year
     /\ rows[i][6] = category}

C27_YearDomain == \A i \in DOMAIN file.requests : file.requests[i].year >= 0

\* C28: for a Discord user outside UNLIMITED_USER_IDS, the add_request calls
\* made within one UTC day never exceed 3.
C28_DailyLimit == \A u \in DiscordUsers \ UNLIMITED_USER_IDS : nadds[u] <= 3

\* C29: a Discord submission never creates a duplicate. The rows are listed
\* in the order of creation, so no Discord row repeats the title (trimmed,
\* lower-cased), year and category of a row listed before it, whatever
\* Discord and Telegram handlers were in flight when it was created.
C29_NoDiscordDuplicate ==
  LET rows == View(file)
  IN \A j \in DOMAIN rows :
       rows[j][3] = "discord" =>
         \A i \in 1..(j - 1) : i \notin SameRequest(rows, rows[j][4], rows[j][5], rows[j][6])

\* The Telegram handler was started first and is suspended at its reply,
\* its request "dune" (2021, film) created; the Discord callback for "Dune"
\* (2021, film) ran meanwhile, found that record and is about to answer with
\* it, and the store holds one record.
C29_Witness ==
  \E c, t \in Coros :
    /\ loop.co[t].h = "callback_handler"
    /\ loop.co[t].at = "reply"
    /\ loop.co[c].h = "RequestChoiceSelect"
    /\ loop.co[c].at = "send"
    /\ loop.co[c].out = "duplicate"
    /\ loop.co[c].row[3] = "telegram"
    /\ loop.co[c].row[4] = <<"d", "u", "n", "e">>
    /\ loop.co[c].title = <<"D", "u", "n", "e">>
    /\ Len(View(file)) = 1

\* C21 as stated: in every state where a handler coroutine is suspended at an
\* await, _LOCK is free.
C21_LockFreeAtEveryAwait ==
  \A c \in Coros : loop.co[c].at \in AwaitPositions => lock = "free"

\* C21: the lock is never held at a suspension point of the handler that
\* holds it. While the loop runs no handler segment _LOCK is free; the lock is
\* held only by the thread of the loop, inside a Store call of the coroutine
\* it is running, and each coroutine that is not the running one is at an
\* await or not started.
C21_LockFreeAtSuspension ==
  /\ loop.cur = "none" => lock = "free"
  /\ lock # "free" =>
       /\ lock = LoopThread
       /\ loop.cur \in Coros
       /\ loop.co[loop.cur].at \in CallPositions
       /\ pc[LoopThread] \notin {"idle", "acquire"}
  /\ \A c \in Coros : c # loop.cur => loop.co[c].at \in AwaitPositions \cup {"idle"}

\* ResultRequestModal.on_submit has committed the result of request 1 and is
\* suspended at notif_channel.send; the Discord callback of another user is
\* suspended at its answer; the loop runs nothing and the lock is free.
C21_Witness ==
  \E c, d \in Coros :
    /\ loop.co[c].h = "ResultRequestModal"
    /\ loop.co[c].at = "notify"
    /\ loop.co[d].h = "RequestChoiceSelect"
    /\ loop.co[d].at = "send"
    /\ loop.cur = "none"
    /\ lock = "free"
    /\ ncalls = MaxCalls
    /\ Len(file.requests) = 1
    /\ file.requests[1].result = "dispo"

\* Two rows are the same request: they agree on everything but the id, the
\* status and the result.
SameIdentity(a, b) ==
  /\ a # <<>>
  /\ b # <<>>
  /\ \A k \in {2, 3, 4, 5, 6, 8} : a[k] = b[k]

\* A handler ran on an id kept since an earlier interaction, and the request
\* it was entered for is still in the store.
KeptIdUsed ==
  /\ run'.n = run.n + 1
  /\ run'.h \in {"StatusSelect", "callback_status", "callback_confirm_delete"}
  /\ \E i \in DOMAIN View(file) : SameIdentity(View(file)[i], run'.row)

\* C23: the admin flows that keep an id across an interaction apply the status
\* change or the deletion to the request the admin identified when the id
\* was entered, also after a delete_request renumbered the store in between:
\* the call succeeds and the request that holds the id when update_status or
\* delete_request is called is the one the id was entered for.
C23_IdReResolved ==
  [][KeptIdUsed =>
       /\ run'.out \in {"updated", "deleted"}
       /\ SameIdentity(get_request_by_id(View(file), run'.id), run'.row)]_vars

\* C30: whenever ResultRequestModal.on_submit sets the result of a request
\* through update_result, a notification that mentions the requester is sent
\* in the same run.
C30_ResultNotifies ==
  [][(/\ run'.n = run.n + 1
      /\ run'.h = "ResultRequestModal"
      /\ \E i \in DOMAIN View(file) : View(file')[i][9] # View(file)[i][9])
       => \E m \in sent' \ sent :
            /\ m.id = run'.id
            /\ m.mention = View(file)[run'.id][2]]_vars


\* ------------------------------------------------------------ C31 .. C38
\* The statuses from_dict migrates.
LegacyStatuses == {"ajout_dispo", "traitee"}

\* C37. Whatever the backing file held and whatever was called since,
\* update_status with a legacy value included, no row returned by
\* list_all_requests or list_open_requests has status ajout_dispo or traitee.
C37_NoLegacyListed ==
  \A p \in Procs :
    ret[p].kind = "rows" => \A i \in DOMAIN ret[p].rows : RowStatus(ret[p].rows[i]) \notin LegacyStatuses

\* update_status(1, "traitee") was committed on a request added in this
\* behaviour, the file holds traitee for it, and the list_all_requests that
\* followed returned it as en_cours.
C37_Witness ==
  /\ Last.op = "list_all_requests"
  /\ ncalls >= 2
  /\ \E i \in DOMAIN file.requests :
       /\ IsDict(file.requests[i])
       /\ StoredId(file.requests[i]) = 1
       /\ Get(file.requests[i], "status", "") = "traitee"
       /\ Get(file.requests[i], "created_at", "") = "2026-01-02 09:30:00"
  /\ Len(ret[Caller].rows) >= 1
  /\ RowStatus(ret[Caller].rows[1]) = "en_cours"


\* C31. Starting from an empty store, after any sequence of Discord and
\* Telegram handler runs, the status stored in the backing file for every
\* record is file_attente, en_cours, ajout_non_dispo or pas_encore_sorti.
C31_StoredStatusValid ==
  \A i \in DOMAIN file.requests :
    file.requests[i].status \in {"file_attente", "en_cours", "ajout_non_dispo", "pas_encore_sorti"}

\* An overview step other than stuttering did what.
OverviewDid(by, what) ==
  /\ overview' # overview
  /\ overview'.did.by = by
  /\ overview'.did.what = what

\* The message LIST_OVERVIEW_MESSAGE_ID names exists.
TrackedExists ==
  \E m \in overview.messages : m.id = overview.LIST_OVERVIEW_MESSAGE_ID

\* At most one overview message exists, and the id is 0 or the id of a
\* message !panel_list posted.
SingleOverview ==
  /\ Cardinality(overview'.messages) <= 1
  /\ overview'.LIST_OVERVIEW_MESSAGE_ID \in 0 .. overview'.n

\* A turn of the refresh does nothing only while the id is 0.
RefreshFollowsTracked ==
  OverviewDid("refresh", "nothing") => overview.LIST_OVERVIEW_MESSAGE_ID = 0

\* The id is reset to 0, by the refresh or by !panel_list, only when the
\* tracked message no longer exists.
ResetOnlyWhenGone ==
  (OverviewDid("refresh", "reset") \/ OverviewDid("panel_list", "reset")) => ~TrackedExists

\* C32: LIST_OVERVIEW_MESSAGE_ID is 0 or the id of the single overview
\* message posted by !panel_list; a turn of the periodic refresh does nothing
\* while the id is 0 and goes on to edit the tracked message otherwise; the
\* id is reset to 0 only when the tracked message no longer exists, and
\* !panel_list posts no second overview message while one exists.
C32_OverviewTracking ==
  [][SingleOverview /\ RefreshFollowsTracked /\ ResetOnlyWhenGone]_vars

\* A row the store listed is no longer listed as it was: it was deleted, or
\* its status or result changed.
Mutated == \E i \in 1..Len(View(file)) :
             \A j \in 1..Len(View(file')) : View(file')[j] # View(file)[i]

\* The handler run called update_status, update_result or delete_request.
MutatingCall ==
  /\ run' # run
  /\ \/ /\ run'.h \in {"StatusSelect", "DeleteRequestModal", "callback_status",
                        "callback_confirm_delete"}
        /\ run'.out \in {"updated", "deleted", "not_found"}
     \/ /\ run'.h = "ResultRequestModal"
        /\ run'.out \in NotifOutcomes \cup {"not_updated"}

\* The handler run was made for an admin of its adapter.
ByAdmin ==
  /\ run' # run
  /\ run'.u = IF run'.h \in {"StatusSelect", "DeleteRequestModal", "ResultRequestModal"}
                THEN DiscordAdmin ELSE TelegramAdmin

\* C33: a step that calls update_status, update_result or delete_request, or
\* after which a listed row is gone or has another status or result, is a
\* handler run whose acting user is an admin of the adapter.
C33_AdminOnlyMutation == [][(Mutated \/ MutatingCall) => ByAdmin]_vars

\* A user who is no admin has pressed the select of a StatusSelectView the
\* admin opened, and the rows are the ones the store started with.
C33_Witness ==
  /\ run.h = "StatusSelect"
  /\ run.u = "42"
  /\ run.out = "denied"
  /\ \E v \in views : v.kind = "StatusSelectView" /\ v.id = 1
  /\ View(file) = View(Populated)

\* The step made a record.
RecordMade == Count(file') > Count(file)

\* add_request is called only at step 'category' of the CREATE flow.
AddsAtCategory ==
  RecordMade => /\ run' # run
             /\ user_data[run'.u].flow = "create"
             /\ user_data[run'.u].step = "category"

\* The steps follow each other: 'title' after new_request, 'year' after a
\* title text, 'category' after a text that parses as an integer; a text that
\* does not parse leaves the step at 'year'.
StepsInOrder ==
  \A u \in TelegramUsers :
    LET d == user_data[u]
        e == user_data'[u]
    IN /\ (e.step = "title" /\ e # d) => run'.out = "new_request"
       /\ (e.step = "year" /\ e # d) =>
            d.flow = "create" /\ d.step = "title" /\ run'.out = "title"
       /\ (e.step = "category" /\ e # d) =>
            /\ d.flow = "create" /\ d.step = "year" /\ run'.out = "year"
            /\ e.title = d.title
       /\ (run' # run /\ run'.u = u /\ run'.out = "not_a_year") => e = d /\ d.step = "year"

\* Once the record is created the flow is NONE.
ResetAfterCreation == RecordMade => user_data'[run'.u].flow = "none"

\* C34: a 'category:' callback calls add_request only when the user's flow is
\* CREATE at step 'category', a step reached only through new_request, a title
\* text and a text that parses as an integer year; and once the record is
\* created the flow is NONE, so that another press creates nothing.
C34_CreationFlow == [][AddsAtCategory /\ StepsInOrder /\ ResetAfterCreation]_vars

\* C35: a 'list_open' or 'admin_all' callback that finds rows completes and
\* replies with one line per row shown; format_request_row raises for no row
\* the Store returns.
C35_ListingCompletes ==
  (run.h \in {"list_open", "admin_all"} /\ run.out \notin {"denied", "empty"}) =>
    /\ run.out = "listed"
    /\ run.id = Len(run.row)
    /\ run.id >= 1

\* C36: the lock is held only by a caller inside its with block, so every
\* way out of the block (return, False, a propagating I/O error) has released
\* it; no caller waits for the lock while holding it; and every call that was
\* issued returns.
C36_LockLiveness ==
  /\ [](\A p \in Procs : (lock = p) <=> InCritical(p))
  /\ [](\A p \in Procs : pc[p] = "acquire" => lock # p)
  /\ \A p \in Procs : (pc[p] # "idle") ~> (pc[p] = "idle")

\* Three calls were issued and one has returned: a caller waits for the lock
\* while the other one creates the file inside its with block.
C36_Witness ==
  /\ pc["p1"] = "acquire"
  /\ lock = "p2"
  /\ pc["p2"] \in {"w_open", "w_text", "w_rename"}
  /\ ncalls >= 3
  /\ file.kind = "absent"

\* The row the result handler c read is the row that has its id now, with
\* the result the handler set.
UpdatedIsChecked(c) ==
  LET co == loop.co[c]
      r == get_request_by_id(View(file), co.id)
  IN /\ r # <<>>
     /\ \A i \in 1..8 : r[i] = co.row[i]
     /\ RowResult(r) = IF co.is_available THEN "dispo" ELSE "non_dispo"

\* C38: when update_result has returned True to the result handler, the
\* record updated is the one get_request_by_id returned to it, whatever
\* other handlers did meanwhile; and the notification sent afterwards names
\* the id, requester, title, year and category of that row.
C38_NotifiesUpdatedRecord ==
  [][\A c \in Coros :
       /\ (loop.co[c].at = "update" /\ loop'.co[c].at = "notify") => UpdatedIsChecked(c)
       /\ (loop.co[c].at = "notify" /\ loop'.co[c].at # "notify") =>
            sent' = sent \cup {[mention |-> loop.co[c].row[2], id |-> loop.co[c].row[1],
                                title |-> loop.co[c].row[4], year |-> loop.co[c].row[5],
                                category |-> loop.co[c].row[6],
                                is_available |-> loop.co[c].is_available]}]_vars

\* The notification for request 3 is on its way while a deletion of request 3
\* that started after the update has gone through.
C38_Witness ==
  \E c, d \in Coros :
    /\ loop.co[c].h = "ResultRequestModal"
    /\ loop.co[c].at = "notify"
    /\ loop.co[c].row # <<>>
    /\ loop.co[c].row[1] = 3
    /\ loop.co[d].h = "DeleteRequestModal"
    /\ loop.co[d].at = "send"
    /\ loop.co[d].out = "deleted"
    /\ get_request_by_id(View(file), 3) = <<>>

====
